---- MODULE Spec2Model ----
(***************************************************************************)
(* AutoGUILD (src/src/daf/guild/autoguild.py): the pattern-matching guild  *)
(* group manager, its event listeners, timers, update and close sequences. *)
(* Coroutines are tasks; every `await` of the source is a suspension point *)
(* and the code between two suspension points is one atomic step.          *)
(***************************************************************************)
EXTENDS Integers, Sequences, FiniteSets, TLC

\* ------------------------------------------------------------------ bounds
MaxPatLen == 3          \* longest raw pattern string drawn for the matcher
MaxNameLen == 2         \* longest guild name drawn for the matcher
MaxUpdates == 2         \* update() calls per behaviour
MaxGuildEvents == 2     \* discord guild join/remove events per behaviour
MaxMsgCalls == 3        \* add_message / remove_message calls per behaviour
MaxInFlight == 2        \* event dispatches in flight at once
MaxGuildObjs == 4       \* GUILD manager objects alive at once
MaxMemberEvents == 1    \* discord member-join / invite-delete events per behaviour
MaxFaults == 1          \* failures of the environment per behaviour
JoinLimit == 2          \* the limit of the GuildDISCOVERY given as auto_join
MaxChannels == 3        \* channels of the message that is sent
MaxRounds == 3          \* update / send rounds of the message
MaxClock == 4           \* the last instant of the clock the removal timer runs on
MaxDelay == 2           \* the longest remove_after given as a duration
MaxCloses == 3          \* _close calls on one object per behaviour
MaxLists == 3           \* list objects of the guild cache alive at once

\* ------------------------------------------------------- program constants
GUILD_MAX_AMOUNT == 100

\* Python's None, as a value comparable with the character sequences below.
None == <<"None">>

\* ------------------------------------------------------------- re module
\* Strings are sequences of one-character strings; the patterns drawn use
\* literal characters, blanks and the alternation bar.
PatChars == {"a", "b", " ", "|"}
NameChars == {"a", "b"}

SeqsUpTo(S, n) == UNION {[1..k -> S] : k \in 0..n}

BarAfter(p, i) ==
    \E j \in (i + 1)..Len(p) : p[j] = "|" /\ \A k \in (i + 1)..(j - 1) : p[k] = " "

BarBefore(p, i) ==
    \E j \in 1..(i - 1) : p[j] = "|" /\ \A k \in (j + 1)..(i - 1) : p[k] = " "

RECURSIVE KeepFrom(_, _)
KeepFrom(p, i) ==
    IF i > Len(p) THEN <<>>
    ELSE IF p[i] = " " /\ (BarAfter(p, i) \/ BarBefore(p, i)) THEN KeepFrom(p, i + 1)
    ELSE <<p[i]>> \o KeepFrom(p, i + 1)

\* re.sub(r"\s*\|\s*", '|', p): blanks around a bar are removed.
re_sub_bar(p) == KeepFrom(p, 1)

\* The alternatives of a pattern: the pieces between bars.
Alternatives(p) ==
    LET B == {0, Len(p) + 1} \cup {i \in 1..Len(p) : p[i] = "|"}
    IN {SubSeq(p, i + 1, j - 1) : <<i, j>> \in
            {x \in B \X B : x[1] < x[2] /\ \A k \in B : ~(x[1] < k /\ k < x[2])}}

Contains(s, lit) ==
    \E k \in 0..(Len(s) - Len(lit)) : SubSeq(s, k + 1, k + Len(lit)) = lit

\* re.search(p, s) is not None
re_search(p, s) == \E alt \in Alternatives(p) : Contains(s, alt)

\* ------------------------------------------------------------------ state
VARIABLES
    self,           \* the AutoGUILD object: its __slots__
    guild_objs,     \* the GUILD objects alive, by object identity
    listeners,      \* the EventController's listeners, in registration order
    dispatches,     \* emitted events whose listeners are still running
    client_guilds,  \* client.guilds
    aj_state,       \* the auto_join (GuildDISCOVERY) capability
    api,            \* the add_message / remove_message call in flight
    budget,         \* operations left to the environment
    remote_uses,    \* the invites that exist remotely, with their use counts
    invite_logs,    \* the invite ids handed to logging.save_log
    orphan_timers,  \* timers still armed that no handle refers to any more
    life,           \* Uninitialized / Active / Closing / Closed
    done,           \* what completed in the last step
    arg_name,       \* matcher: the name given to _check_name_match
    match_result,   \* matcher: what _check_name_match returned
    tm,             \* the message that is updated and sent
    rt,             \* the removal deadline: the clock, the timer and its emission
    lists,          \* the list objects the guild queries built, by identity
    gui             \* the GUI's connection clients and GLOBALS.connection

vars == <<self, guild_objs, listeners, dispatches, client_guilds, aj_state,
          api, budget, remote_uses, invite_logs, orphan_timers, life, done, arg_name, match_result,
          tm, rt, lists, gui>>

\* ------------------------------------------------------------- the world
Guilds == {1, 2, 3, 4}                  \* remote guild ids
GuildName(g) == CASE g = 1 -> <<"a">>   \* discord.Guild.name
                  [] g = 2 -> <<"b">>
                  [] g = 3 -> <<"a", "b">>
                  [] OTHER -> <<"a", "a">>
Msgs == {1, 2}                          \* message objects the user holds
Invites == {1, 2}                       \* invite ids
InviteGuild(i) == IF i = 1 THEN 1 ELSE 2  \* the guild an invite leads to
ObjIds == 1..MaxGuildObjs

\* A message object: its value and its identity. The object the user holds
\* has identity 0; each deepcopy is a new object with the same value.
Original(m) == [val |-> m, oid |-> 0]

\* Message equality: copies of one source message compare equal (the comment
\* at remove_message), whatever their identity.
MsgEq(x, y) == x.val = y.val

Min(S) == CHOOSE x \in S : \A y \in S : x <= y

RECURSIVE SetToSeq(_)
SetToSeq(S) == IF S = {} THEN <<>> ELSE <<Min(S)>> \o SetToSeq(S \ {Min(S)})

Range(f) == {f[i] : i \in DOMAIN f}

RemoveAt(seq, i) == SubSeq(seq, 1, i - 1) \o SubSeq(seq, i + 1, Len(seq))

\* list.index on a predicate: the first position, 0 when there is none
FirstIdx(seq, P(_)) ==
    IF \E i \in 1..Len(seq) : P(seq[i])
    THEN Min({i \in 1..Len(seq) : P(seq[i])}) ELSE 0

Count(seq, P(_)) == Cardinality({i \in 1..Len(seq) : P(seq[i])})

\* The world a coroutine step reads and writes.
World == [self |-> self, objs |-> guild_objs, listeners |-> listeners,
          client_guilds |-> client_guilds, aj |-> aj_state, api |-> api,
          orphans |-> orphan_timers, logs |-> invite_logs, life |-> life,
          emits |-> <<>>, overflow |-> FALSE]

\* The message copies alive: identities a new copy must differ from.
CopiesAlive(w) ==
    UNION {Range(w.objs[o]._messages) : o \in DOMAIN w.objs}
        \cup {w.api.pending[i].copy : i \in 1..Len(w.api.pending)}

FreshCopy(message, used) ==
    [val |-> message.val,
     oid |-> Min({k \in 1..(Cardinality(used) + 1) :
                    [val |-> message.val, oid |-> k] \notin used})]

\* copy.deepcopy of one message, and of a list of messages
deepcopy(message, used) == FreshCopy(message, used)

RECURSIVE deepcopy_list(_, _)
deepcopy_list(messages, used) ==
    IF messages = <<>> THEN <<>>
    ELSE LET c == deepcopy(Head(messages), used)
         IN <<c>> \o deepcopy_list(Tail(messages), used \cup {c})

\* ------------------------------------------------------- EventController
Listener(ev, fnc, owner, pred) == [ev |-> ev, fnc |-> fnc, owner |-> owner, pred |-> pred]

add_listener(w, ev, fnc, pred) ==
    [w EXCEPT !.listeners = Append(@, Listener(ev, fnc, "X", pred))]

\* Removes the registration of fnc on ev (the first one); none is no error.
remove_listener(w, ev, fnc) ==
    LET i == FirstIdx(w.listeners, LAMBDA l : l.ev = ev /\ l.fnc = fnc /\ l.owner = "X")
    IN IF i = 0 THEN w ELSE [w EXCEPT !.listeners = RemoveAt(@, i)]

\* -------------------------------------------------------------- AutoGUILD
\* A name match that forgets the exclude pattern.
_check_name_match_include_only(s, name) ==
    IF name = None THEN "False"
    ELSE IF s.include_pattern = None THEN "TypeError"
    ELSE IF re_search(s.include_pattern, name) THEN "True" ELSE "False"

\* AutoGUILD._check_name_match: "True", "False", or the TypeError re.search
\* raises for a pattern that is None.
_check_name_match(s, name) ==
    IF name = None THEN "False"
    ELSE IF s.include_pattern = None THEN "TypeError"
    ELSE IF ~re_search(s.include_pattern, name) THEN "False"
    ELSE IF s.exclude_pattern = None \/ ~re_search(s.exclude_pattern, name)
         THEN "True" ELSE "False"

\* AutoGUILD._get_guilds: the matching guilds of client.guilds, in the client's
\* order; the list built replaces _cache and is what the caller gets.
_get_guilds(w) ==
    [w EXCEPT !.self._cache =
        SetToSeq({g \in w.client_guilds : _check_name_match(w.self, GuildName(g)) = "True"})]

\* AutoGUILD.__init__ on an object s (update_semaphore is written only when
\* the object has none yet).
__init__(s, p) ==
    [include_pattern |-> IF p.include_pattern # <<>> THEN re_sub_bar(p.include_pattern) ELSE None,
     exclude_pattern |-> IF p.exclude_pattern # None /\ p.exclude_pattern # <<>>
                         THEN re_sub_bar(p.exclude_pattern) ELSE None,
     _remove_after |-> p.remove_after,
     _messages |-> p.messages,
     auto_join |-> p.auto_join,
     parent |-> "None",
     guild_query_iter |-> 0,
     guild_join_count |-> 0,
     _removal_timer_handle |-> "None",
     _guild_join_timer_handle |-> "None",
     _cache |-> <<>>,
     _gen_guilds |-> <<>>,
     _event_ctrl |-> "None",
     _invite_join_count |-> [i \in Range(p.invite_track) |-> 0],
     update_semaphore |-> s.update_semaphore]

\* ------------------------------------------------------------ coroutines
\* A running coroutine: the listener (or direct call) it serves, its
\* argument, the await it is suspended at, and its locals.
Task(fnc, arg, owner) ==
    [fnc |-> fnc, arg |-> arg, owner |-> owner, pc |-> "start", phase |-> "none", saved |-> <<>>,
     todo |-> <<>>, g |-> 0, idx |-> 0, held |-> FALSE, res |-> "none",
     init |-> "none", dropped |-> FALSE, why |-> "none", obs |-> <<>>]

\* What a coroutine did, noted in the order it did it.
Note(t, what) == [t EXCEPT !.obs = Append(@, what)]

Ret(w, t) == [w |-> w, t |-> t]

\* async_util.call_at: a new armed timer; the handle it replaces is lost
call_at(w, which) ==
    IF which = "removal"
    THEN [w EXCEPT !.self._removal_timer_handle = "armed",
                   !.orphans.removal = IF w.self._removal_timer_handle = "armed" THEN @ + 1 ELSE @]
    ELSE [w EXCEPT !.self._guild_join_timer_handle = "armed",
                   !.orphans.join = IF w.self._guild_join_timer_handle = "armed" THEN @ + 1 ELSE @]

\* AutoGUILD._reset_auto_join_timer
_reset_auto_join_timer(w) == call_at(w, "join")

\* AutoGUILD._make_new_guild up to `await new_guild.initialize(...)`
make_new_guild_begin(w, t, guild, pc) ==
    IF DOMAIN w.objs = ObjIds THEN Ret([w EXCEPT !.overflow = TRUE], t)
    ELSE LET o == Min(ObjIds \ DOMAIN w.objs)
             new_guild == [apiobject |-> guild,
                           _messages |-> deepcopy_list(w.self._messages, CopiesAlive(w)),
                           st |-> "new"]
         IN Ret([w EXCEPT !.objs = (o :> new_guild) @@ w.objs],
                [t EXCEPT !.pc = pc, !.g = o])

\* A _make_new_guild that appends the GUILD whatever its initialize returned.
make_new_guild_end_always(w, t, ok) ==
    [w EXCEPT !.objs[t.g].st = IF ok THEN "init" ELSE @, !.self._gen_guilds = Append(@, t.g)]

\* AutoGUILD._make_new_guild after the await: a GUILD whose initialize
\* returned an exception is dropped, any other is appended.
make_new_guild_end(w, t, ok) ==
    IF ok THEN [w EXCEPT !.objs[t.g].st = "init", !.self._gen_guilds = Append(@, t.g)]
    ELSE w

\* What _make_new_guild left for the guild it was called with: whether the
\* GUILD initialized, whether it is in the generated list, and by how much
\* the list grew.
Made(w, v, t, ok) ==
    Note(t, [k |-> IF ok THEN "made" ELSE "dropped", g |-> w.objs[t.g].apiobject,
             listed |-> t.g \in Range(v.self._gen_guilds),
             grew |-> Len(v.self._gen_guilds) - Len(w.self._gen_guilds)])

RECURSIVE init_begin(_, _, _, _)

\* What follows AutoGUILD.initialize in its caller. except_return hands an
\* exception back as the result. In _on_update: update_obj_param restores the
\* attributes it saved and raises, the except clause initializes again and
\* re-raises.
init_end(w, t, res) ==
    LET w1 == IF res = "ok" THEN [w EXCEPT !.life = "Active"] ELSE w
    IN IF t.fnc = "_on_update" /\ t.phase = "update" /\ res # "ok"
       THEN LET w2 == [w EXCEPT !.self = [t.saved EXCEPT !.update_semaphore = w.self.update_semaphore]]
            IN init_begin(w2, [t EXCEPT !.phase = "rollback", !.saved = <<>>, !.why = "initialize"],
                          w2.self.parent, w2.self._event_ctrl)
       ELSE IF t.fnc = "_on_update" /\ t.phase = "rollback"
       THEN Ret(w1, [t EXCEPT !.pc = "done", !.res = "raised", !.init = res])
       ELSE Ret(w1, [t EXCEPT !.pc = "done", !.res = res, !.init = res])

\* initialize, lines 342-343: the loop over the matching guilds
init_loop(w, t) ==
    IF t.todo = <<>> THEN init_end(w, t, "ok")
    ELSE make_new_guild_begin(w, [t EXCEPT !.todo = Tail(@)], Head(t.todo), "i_mk")

\* initialize, lines 326-342: timer and listener registrations
init_registrations(w, t) ==
    LET w1 == IF w.self.auto_join # "None"
              THEN add_listener(_reset_auto_join_timer(w),
                                "auto_guild_start_join", "_join_guilds", "is_self")
              ELSE w
        w2 == add_listener(w1, "discord_guild_join", "_on_guild_join", "name_match")
        w3 == add_listener(w2, "discord_guild_remove", "_on_guild_remove", "none")
        w4 == add_listener(w3, "server_update", "_on_update", "is_self")
        w5 == _get_guilds(w4)
    IN init_loop(w5, Note([t EXCEPT !.todo = w5.self._cache],
                          [k |-> "matching", guilds |-> w5.self._cache]))

RECURSIVE invite_listeners(_, _)
invite_listeners(w, n) ==
    IF n = 0 THEN w
    ELSE invite_listeners(
            add_listener(add_listener(w, "discord_member_join", "_on_member_join", "member_match"),
                         "discord_invite_delete", "_on_invite_delete", "member_match"),
            n - 1)

\* What initialize did with the tracked invites: the counts it had, the
\* counts it fetched and the counts it kept.
Tracked(w, v, t, invites) ==
    Note(t, [k |-> "invites", tracked |-> w.self._invite_join_count, fetched |-> invites,
             after |-> v.self._invite_join_count])

\* An invite step that keeps an invite it did not fetch, with the count it had.
init_counts_keeps_absent(w, t, invites) ==
    LET counts == w.self._invite_join_count
        w1 == [w EXCEPT !.self._invite_join_count =
                    [i \in DOMAIN counts |-> IF i \in DOMAIN invites THEN invites[i] ELSE counts[i]]]
    IN init_registrations(invite_listeners(w1, Cardinality(DOMAIN counts)),
                          Tracked(w, w1, t, invites))

\* initialize, lines 301-322: the fetched use counts replace the tracked
\* ones, an invite that was not fetched is dropped; the two listeners are
\* added inside the loop, once for each tracked invite.
init_counts(w, t, invites) ==
    LET counts == w.self._invite_join_count
        w1 == [w EXCEPT !.self._invite_join_count =
                    [i \in DOMAIN counts \cap DOMAIN invites |-> invites[i]]]
    IN init_registrations(invite_listeners(w1, Cardinality(DOMAIN counts)),
                          Tracked(w, w1, t, invites))

\* initialize, lines 283-300
init_after_aj(w, t) ==
    LET w1 == IF w.self._remove_after # "None"
              THEN call_at([w EXCEPT !.self._remove_after =
                                IF @ = "timedelta" THEN "now+timedelta" ELSE "now"],
                           "removal")
              ELSE w
    IN IF DOMAIN w1.self._invite_join_count # {}
       THEN LET w2 == _get_guilds(w1)
            IN IF w2.self._cache = <<>> THEN init_counts(w2, t, <<>>)
               ELSE Ret(w2, [t EXCEPT !.pc = "i_inv"])
       ELSE init_registrations(w1, t)

\* initialize, lines 274-279
init_begin(w, t, parent, event_ctrl) ==
    LET w1 == [w EXCEPT !.self._event_ctrl = event_ctrl, !.self.parent = parent]
        t1 == [t EXCEPT !.dropped = FALSE]
    IN IF w1.self.auto_join # "None" THEN Ret(w1, [t1 EXCEPT !.pc = "i_aj"])
       ELSE init_after_aj(w1, t1)

\* initialize, lines 278-281, after `await self.auto_join.initialize(self)`
init_resume_aj(w, t, ok) ==
    IF ok THEN init_after_aj([w EXCEPT !.aj = "open", !.self.guild_query_iter = 1], t)
    ELSE init_end(w, t, "raised")

\* initialize, after `await self._make_new_guild(guild)`
init_resume_mk(w, t, ok) ==
    LET v == make_new_guild_end(w, t, ok)
    IN init_loop(v, Made(w, v, [t EXCEPT !.dropped = @ \/ ~ok], ok))

\* ---------------------------------------------------------------- update
\* AutoGUILD._on_update after `await self._close()`. self.invite_track is
\* no attribute of the class (__slots__, line 75-93): reading it raises
\* AttributeError inside the try. update_obj_param saves the attributes,
\* calls __init__ with the current parameters overridden by kwargs and then
\* initialize(**init_options). The update notes the invite ids the object
\* tracked when its body began.
u_body(w, t) ==
    LET kw == t.arg.kwargs
        s == w.self
        t0 == Note(t, [k |-> "tracked", ids |-> DOMAIN w.self._invite_join_count])
        Get(k, cur) == IF k \in DOMAIN kw THEN kw[k] ELSE cur
    IN IF "invite_track" \notin DOMAIN kw
       THEN init_begin(w, [t0 EXCEPT !.phase = "rollback", !.why = "AttributeError"],
                       s.parent, s._event_ctrl)
       ELSE LET params == [include_pattern |-> Get("include_pattern", s.include_pattern),
                           exclude_pattern |-> Get("exclude_pattern", s.exclude_pattern),
                           remove_after |-> Get("remove_after", s._remove_after),
                           messages |-> Get("messages", s._messages),
                           auto_join |-> Get("auto_join", s.auto_join),
                           invite_track |-> kw["invite_track"]]
            IN IF params.include_pattern = None
               THEN init_begin(w, [t0 EXCEPT !.phase = "rollback", !.why = "TypeError"],
                               s.parent, s._event_ctrl)
               ELSE init_begin([w EXCEPT !.self = __init__(s, params)],
                               [t0 EXCEPT !.phase = "update", !.saved = s],
                               s.parent, s._event_ctrl)

\* ----------------------------------------------------------------- close
\* The end of _close: with_semaphore releases the semaphore and the caller
\* goes on without suspending.
close_return(w, t, closed) ==
    LET w1 == [w EXCEPT !.self.update_semaphore = 1,
                        !.life = IF closed THEN "Closed" ELSE @]
        t1 == [t EXCEPT !.held = FALSE]
    IN IF t.fnc = "_on_update" THEN u_body(w1, t1)
       ELSE Ret(w1, [t1 EXCEPT !.pc = "done", !.res = IF closed THEN "ok" ELSE "nothing"])

\* _close, lines 539-540: `for guild in self._gen_guilds: await guild._close()`
close_loop(w, t) ==
    IF t.idx > Len(w.self._gen_guilds) THEN close_return(w, t, TRUE)
    ELSE Ret(w, Note([t EXCEPT !.pc = "c_g", !.g = w.self._gen_guilds[t.idx]], [k |-> "guild"]))

close_resume_g(w, t) ==
    close_loop([w EXCEPT !.objs[t.g].st = "closed"], [t EXCEPT !.idx = @ + 1])

\* _close, lines 536-537
close_aj(w, t) ==
    IF w.self.auto_join # "None" THEN Ret(w, Note([t EXCEPT !.pc = "c_aj"], [k |-> "capability"]))
    ELSE close_loop(w, [t EXCEPT !.idx = 1])

close_resume_aj(w, t) == close_loop([w EXCEPT !.aj = "closed"], [t EXCEPT !.idx = 1])

\* Task.cancel(): a timer that is armed will not fire any more
cancel(h) == IF h = "armed" THEN "cancel_req" ELSE h
\* the cancellation has landed once gather(handle) returns
landed(h) == IF h = "cancel_req" THEN "cancelled" ELSE h

\* _close, lines 532-534
close_t2(w, t) ==
    IF w.self._guild_join_timer_handle \notin {"None", "cancelled"}
    THEN Ret([w EXCEPT !.self._guild_join_timer_handle = cancel(@)],
             Note([t EXCEPT !.pc = "c_t2"], [k |-> "timer"]))
    ELSE close_aj(w, t)

close_resume_t2(w, t) ==
    close_aj([w EXCEPT !.self._guild_join_timer_handle = landed(@)], t)

\* _close, lines 528-530
close_t1(w, t) ==
    IF w.self._removal_timer_handle \notin {"None", "cancelled"}
    THEN Ret([w EXCEPT !.self._removal_timer_handle = cancel(@)],
             Note([t EXCEPT !.pc = "c_t1"], [k |-> "timer"]))
    ELSE close_t2(w, t)

close_resume_t1(w, t) ==
    close_t2([w EXCEPT !.self._removal_timer_handle = landed(@)], t)

\* _close, lines 521-526: the listeners _close removes
close_unregister(w) ==
    remove_listener(
        remove_listener(
            remove_listener(
                remove_listener(w, "auto_guild_start_join", "_join_guilds"),
                "server_update", "_on_update"),
            "discord_member_join", "_on_member_join"),
        "discord_invite_delete", "_on_invite_delete")

\* A _close that cancels the timers before it unregisters the listeners.
close_body_timers_first(w, t) ==
    IF w.self._event_ctrl = "None"
    THEN close_return(w, IF t.fnc = "_close" THEN [t EXCEPT !.phase = w.life] ELSE t, FALSE)
    ELSE LET w1 == [w EXCEPT !.life = "Closing",
                             !.self._removal_timer_handle = landed(cancel(@)),
                             !.self._guild_join_timer_handle = landed(cancel(@))]
             t1 == IF t.fnc = "_close" THEN [t EXCEPT !.phase = w.life] ELSE t
         IN close_aj(close_unregister(w1), Note(Note(t1, [k |-> "timer"]), [k |-> "unregister"]))

\* _close, lines 518-526, the semaphore taken (a _close called directly
\* notes the state it found the object in)
close_body(w, t) ==
    IF w.self._event_ctrl = "None"
    THEN close_return(w, IF t.fnc = "_close" THEN [t EXCEPT !.phase = w.life] ELSE t, FALSE)
    ELSE close_t1(close_unregister([w EXCEPT !.life = "Closing"]),
                  Note(IF t.fnc = "_close" THEN [t EXCEPT !.phase = w.life] ELSE t,
                       [k |-> "unregister"]))

\* with_semaphore("update_semaphore"): the coroutine runs with the semaphore
\* taken and waits for it when it is not free.
close_begin(w, t) ==
    IF w.self.update_semaphore = 0 THEN Ret(w, [t EXCEPT !.pc = "c_wait"])
    ELSE close_body([w EXCEPT !.self.update_semaphore = 0], [t EXCEPT !.held = TRUE])

\* ------------------------------------------------------- guild listeners
Finish(w, t, res) == Ret(w, [t EXCEPT !.pc = "done", !.res = res])

\* AutoGUILD._on_guild_join
on_guild_join_begin(w, t) == make_new_guild_begin(w, t, t.arg, "j_mk")
on_guild_join_resume(w, t, ok) ==
    LET v == make_new_guild_end(w, t, ok)
    IN Finish(v, Made(w, v, [t EXCEPT !.dropped = ~ok], ok), "ok")

\* What a step of _on_guild_remove found and left: the managers the guild
\* had, the generated list and the GUILD objects before and after the step.
Removal(w, v, t, had) ==
    Note(t, [k |-> "removal", had |-> had, target |-> t.g,
             before |-> w.self._gen_guilds, after |-> v.self._gen_guilds,
             st |-> IF t.g \in DOMAIN v.objs THEN v.objs[t.g].st ELSE "none",
             touched |-> {o \in DOMAIN w.objs : v.objs[o] # w.objs[o]}])

\* An _on_guild_remove that removes whatever manager comes first when the
\* guild has none.
on_guild_remove_begin_any(w, t) ==
    LET i == FirstIdx(w.self._gen_guilds, LAMBDA o : w.objs[o].apiobject = t.arg)
        Had == Count(w.self._gen_guilds, LAMBDA o : w.objs[o].apiobject = t.arg)
    IN IF i = 0 /\ w.self._gen_guilds = <<>> THEN Finish(w, Removal(w, w, t, 0), "ok")
       ELSE LET g == IF i = 0 THEN w.self._gen_guilds[1] ELSE w.self._gen_guilds[i]
                t1 == [t EXCEPT !.pc = "r_close", !.g = g]
            IN Ret(w, Removal(w, w, t1, Had))

\* AutoGUILD._on_guild_remove up to `await g._close()`
on_guild_remove_begin(w, t) ==
    LET i == FirstIdx(w.self._gen_guilds, LAMBDA o : w.objs[o].apiobject = t.arg)
        Had == Count(w.self._gen_guilds, LAMBDA o : w.objs[o].apiobject = t.arg)
    IN IF i = 0 THEN Finish(w, Removal(w, w, t, 0), "ok")
       ELSE LET t1 == [t EXCEPT !.pc = "r_close", !.g = w.self._gen_guilds[i]]
            IN Ret(w, Removal(w, w, t1, Had))

\* AutoGUILD._on_guild_remove, line 510: list.remove raises ValueError for
\* an object that is no longer in the list
on_guild_remove_resume(w, t) ==
    LET w1 == [w EXCEPT !.objs[t.g].st = "closed"]
        j == FirstIdx(w1.self._gen_guilds, LAMBDA o : o = t.g)
    IN IF j = 0 THEN Finish(w1, Removal(w, w1, t, 1), "raised")
       ELSE LET v == [w1 EXCEPT !.self._gen_guilds = RemoveAt(@, j)]
            IN Finish(v, Removal(w, v, t, 1), "ok")

\* ------------------------------------------------------------- auto join
Feed == <<1, 4, 3>>     \* the guilds the discovery query yields, in order

release(w) == [w EXCEPT !.self.update_semaphore = 1]

\* AutoGUILD._join_guilds, lines 417-423, the semaphore taken (the handler
\* notes the state it found the object in)
jg_body(w, t) ==
    IF \/ w.self.guild_query_iter = 0
       \/ w.self.guild_join_count = JoinLimit
       \/ Cardinality(w.client_guilds) = GUILD_MAX_AMOUNT
    THEN Finish(release(remove_listener(w, "auto_guild_start_join", "_join_guilds")),
                Note([t EXCEPT !.held = FALSE, !.phase = w.life], [k |-> "stopped"]), "ok")
    ELSE Ret(w, [t EXCEPT !.pc = "jg_next", !.phase = w.life])

jg_begin(w, t) ==
    IF w.self.update_semaphore = 0 THEN Ret(w, [t EXCEPT !.pc = "jg_wait"])
    ELSE jg_body([w EXCEPT !.self.update_semaphore = 0], [t EXCEPT !.held = TRUE])

\* What a step of _join_guilds did with candidate c: whether the client was
\* in the guild already, and guild_join_count before and after the step.
Counted(w, v, what, c) ==
    [k |-> what, c |-> c, member |-> c \in w.client_guilds,
     before |-> w.self.guild_join_count, after |-> v.self.guild_join_count]

\* _join_guilds, lines 425-453: get_next_guild and what the loop does with
\* its result. `yielded` tells whether the query answered or raised.
jg_resume_next(w, t, yielded) ==
    LET pos == w.self.guild_query_iter
        s == w.self
        t0 == [t EXCEPT !.held = FALSE]
    IN IF ~yielded \/ pos > Len(Feed) \/ pos = 0 \/ s.include_pattern = None
       THEN Finish(release([w EXCEPT !.self.guild_query_iter = 0]),
                   Note(t0, [k |-> "exhausted"]), "ok")
       ELSE LET c == Feed[pos]
                w1 == [w EXCEPT !.self.guild_query_iter = pos + 1]
            IN IF \/ ~re_search(s.include_pattern, GuildName(c))
                  \/ (s.exclude_pattern # None /\ re_search(s.exclude_pattern, GuildName(c)))
               THEN Finish(release(w1), Note(t0, [k |-> "rejected"]), "ok")
               ELSE IF c \in w.client_guilds
               THEN LET v == [w1 EXCEPT !.self.guild_join_count = @ + 1]
                    IN Ret(v, Note(t, Counted(w, v, "already", c)))
               ELSE Ret(w1, Note([t EXCEPT !.pc = "jg_join", !.idx = c], Counted(w, w1, "attempt", c)))

\* A join step that counts the attempt, whatever came of it.
jg_resume_join_counts_attempts(w, t, joined) ==
    LET w1 == IF joined
              THEN [w EXCEPT !.client_guilds = @ \cup {t.idx},
                             !.emits = Append(@, [ev |-> "discord_guild_join", arg |-> t.idx]),
                             !.self.guild_join_count = @ + 1]
              ELSE [w EXCEPT !.self.guild_join_count = @ + 1]
    IN Finish(release(_reset_auto_join_timer(w1)),
              Note([t EXCEPT !.held = FALSE],
                   Counted(w, w1, IF joined THEN "joined" ELSE "failed", t.idx)), "ok")

\* _join_guilds, lines 455-479: the join through the browser and its check
jg_resume_join(w, t, joined) ==
    LET w1 == IF joined
              THEN [w EXCEPT !.client_guilds = @ \cup {t.idx},
                             !.emits = Append(@, [ev |-> "discord_guild_join", arg |-> t.idx]),
                             !.self.guild_join_count = @ + 1]
              ELSE w
    IN Finish(release(_reset_auto_join_timer(w1)),
              Note([t EXCEPT !.held = FALSE],
                   Counted(w, w1, IF joined THEN "joined" ELSE "failed", t.idx)), "ok")

\* ---------------------------------------------------------- invite tracking
\* AutoGUILD._get_invites: the invites of the matching guilds
fetched_invites(w, uses, http_ok) ==
    LET ids == {i \in DOMAIN uses : http_ok /\ InviteGuild(i) \in Range(w.self._cache)}
    IN [i \in ids |-> uses[i]]

\* What _on_member_join found and did: the counts before, the counts
\* fetched, the counts after and the invites it logged.
Compared(w, v, t, invites) ==
    Note(t, [k |-> "counts", before |-> w.self._invite_join_count, fresh |-> invites,
             after |-> v.self._invite_join_count,
             logged |-> SubSeq(v.logs, Len(w.logs) + 1, Len(v.logs))])

\* A member join attributed to the last invite whose count differs.
member_join_counts_last(w, t, invites) ==
    LET counts == w.self._invite_join_count
        D == {i \in DOMAIN counts \cap DOMAIN invites : counts[i] # invites[i]}
    IN IF D = {} THEN Finish(w, Compared(w, w, t, invites), "ok")
       ELSE LET i == CHOOSE x \in D : \A y \in D : y <= x
                v == [w EXCEPT !.self._invite_join_count[i] = invites[i],
                               !.logs = Append(@, i)]
            IN Ret(v, [Compared(w, v, t, invites) EXCEPT !.pc = "m_log"])

\* AutoGUILD._on_member_join, lines 485-492, with the invites fetched
member_join_counts(w, t, invites) ==
    LET counts == w.self._invite_join_count
        ids == SetToSeq(DOMAIN counts)
        k == FirstIdx(ids, LAMBDA i : i \notin DOMAIN invites \/ counts[i] # invites[i])
    IN IF k = 0 THEN Finish(w, Compared(w, w, t, invites), "ok")
       ELSE IF ids[k] \notin DOMAIN invites THEN Finish(w, Compared(w, w, t, invites), "raised")
       ELSE LET v == [w EXCEPT !.self._invite_join_count[ids[k]] = invites[ids[k]],
                               !.logs = Append(@, ids[k])]
            IN Ret(v, [Compared(w, v, t, invites) EXCEPT !.pc = "m_log"])

\* AutoGUILD._on_member_join up to `await self._get_invites()`
on_member_join_begin(w, t) ==
    LET w1 == _get_guilds(w)
    IN IF w1.self._cache = <<>> THEN member_join_counts(w1, t, <<>>)
       ELSE Ret(w1, [t EXCEPT !.pc = "m_inv"])

\* AutoGUILD._on_invite_delete
on_invite_delete(w, t) ==
    LET counts == w.self._invite_join_count
    IN Finish([w EXCEPT !.self._invite_join_count =
                    [i \in DOMAIN counts \ {t.arg.id} |-> counts[i]]], t, "ok")

\* ------------------------------------------------------ message templates
IdleApi == [op |-> "none", msg |-> 0, pending |-> <<>>, res |-> "none", at |-> "none"]

RECURSIVE fan_out(_, _, _)
fan_out(gs, message, used) ==
    IF gs = <<>> THEN <<>>
    ELSE LET c == deepcopy(message, used)
         IN <<[g |-> Head(gs), kind |-> "add", copy |-> c]>>
                \o fan_out(Tail(gs), message, used \cup {c})

\* AutoGUILD.add_message: the template list gets the message, every
\* generated GUILD is handed a deepcopy; the additions run as futures.
add_message(w, message) ==
    [w EXCEPT !.self._messages = Append(@, message),
              !.api = [op |-> "add_message", msg |-> message.val, res |-> "ok", at |-> w.life,
                       pending |-> fan_out(w.self._gen_guilds, message, CopiesAlive(w))]]

\* AutoGUILD.remove_message: list.remove and list.index raise ValueError
\* when nothing equal is in the list.
remove_message(w, message) ==
    LET i == FirstIdx(w.self._messages, LAMBDA x : MsgEq(x, message))
        gs == w.self._gen_guilds
        Idx(g) == FirstIdx(w.objs[g]._messages, LAMBDA x : MsgEq(x, message))
    IN IF i = 0
       THEN [w EXCEPT !.api = [op |-> "remove_message", msg |-> message.val, at |-> w.life,
                               res |-> "ValueError", pending |-> <<>>]]
       ELSE IF \E k \in 1..Len(gs) : Idx(gs[k]) = 0
       THEN [w EXCEPT !.self._messages = RemoveAt(@, i),
                      !.api = [op |-> "remove_message", msg |-> message.val, at |-> w.life,
                               res |-> "ValueError", pending |-> <<>>]]
       ELSE [w EXCEPT !.self._messages = RemoveAt(@, i),
                      !.api = [op |-> "remove_message", msg |-> message.val, res |-> "ok",
                               at |-> w.life,
                               pending |-> [k \in 1..Len(gs) |->
                                   [g |-> gs[k], kind |-> "remove",
                                    copy |-> w.objs[gs[k]]._messages[Idx(gs[k])]]]]]

\* What remove_message found: whether the message was in the template list
\* and which generated GUILDs held no copy of it.
Lacked(w, message) ==
    [k |-> "lacking",
     in_template |-> \E x \in Range(w.self._messages) : MsgEq(x, message),
     lacking |-> {o \in Range(w.self._gen_guilds) :
                    \A x \in Range(w.objs[o]._messages) : ~MsgEq(x, message)}]

\* GUILD.add_message / GUILD.remove_message on one generated GUILD
guild_future(w, p) ==
    IF p.kind = "add" THEN [w EXCEPT !.objs[p.g]._messages = Append(@, p.copy)]
    ELSE LET j == FirstIdx(w.objs[p.g]._messages, LAMBDA x : x = p.copy)
         IN IF j = 0 THEN w ELSE [w EXCEPT !.objs[p.g]._messages = RemoveAt(@, j)]

\* ------------------------------------------------------- event dispatch
Idle == [Task("idle", 0, "X") EXCEPT !.pc = "idle"]
\* What a step completed: the operation, its argument and result, and for a
\* coroutine that ran initialize how the last initialize ended, whether a
\* GUILD was dropped because its own initialize failed, and what made an
\* update roll back.
Done(op, arg, res, phase) ==
    [op |-> op, arg |-> arg, res |-> res, phase |-> phase, init |-> "none", dropped |-> FALSE,
     why |-> "none", obs |-> <<>>, rest |-> <<>>]
NotDone == Done("none", 0, "none", "none")

EvGuild(ev, arg) == IF ev = "discord_invite_delete" THEN arg.guild ELSE arg

\* Whether a listener is registered for the event and its predicate accepts
\* the payload (the lambdas of initialize, lines 313-340).
Accepts(s, l, ev, arg) ==
    /\ l.ev = ev
    /\ CASE l.pred = "none" -> TRUE
         [] l.pred = "is_self" -> arg.target = l.owner
         [] OTHER -> _check_name_match(s, GuildName(EvGuild(ev, arg))) = "True"

\* EventController.emit: the listeners registered now that accept the
\* payload, in registration order, run one after the other. The dispatch
\* keeps what was selected (sel) and how many of them have run (ran).
emit(s, ls, ev, arg) ==
    LET todo == SelectSeq(ls, LAMBDA l : Accepts(s, l, ev, arg))
    IN IF todo = <<>> THEN <<>>
       ELSE <<[ev |-> ev, arg |-> arg, sel |-> todo, ran |-> 0, todo |-> todo, task |-> Idle]>>

\* A call made directly by the owner of the object (the account).
direct(fnc) ==
    LET call == <<Listener("direct", fnc, "X", "none")>>
    IN <<[ev |-> "direct", arg |-> 0, sel |-> call, ran |-> 0, todo |-> call, task |-> Idle]>>

RECURSIVE emit_all(_, _, _)
emit_all(s, ls, es) ==
    IF es = <<>> THEN <<>>
    ELSE emit(s, ls, Head(es).ev, Head(es).arg) \o emit_all(s, ls, Tail(es))

\* A listener that raised and what the dispatch does then, were the
\* exception to end the dispatch.
next_listener_abort(d, t, w) ==
    IF t.res = "raised" THEN [d EXCEPT !.todo = <<>>, !.task = Idle, !.ran = @ + 1]
    ELSE [d EXCEPT !.todo = Tail(@), !.task = Idle, !.ran = @ + 1]

\* A dispatch that walks the listener list as it is now, were it to read
\* the list anew after each listener.
next_listener_live(d, t, w) ==
    LET live == SelectSeq(w.listeners, LAMBDA l : Accepts(w.self, l, d.ev, d.arg))
    IN [d EXCEPT !.todo = IF d.ev = "direct" THEN Tail(@)
                          ELSE SubSeq(live, d.ran + 2, Len(live)),
                 !.task = Idle, !.ran = @ + 1]

\* The listener of a dispatch has returned or raised: the exception is caught
\* and logged, and the dispatch goes on with the listener that was selected
\* after it, whatever the listener list has become in the world w.
next_listener(d, t, w) == [d EXCEPT !.todo = Tail(@), !.task = Idle, !.ran = @ + 1]

\* The GUILD objects something still refers to.
Referenced(w, ds) ==
    Range(w.self._gen_guilds)
        \cup {ds[i].task.g : i \in {j \in 1..Len(ds) : ds[j].task.pc \in {"i_mk", "j_mk", "c_g", "r_close"}}}
        \cup UNION {Range(ds[i].task.saved._gen_guilds) :
                        i \in {j \in 1..Len(ds) : ds[j].task.phase = "update"}}
        \cup {w.api.pending[i].g : i \in 1..Len(w.api.pending)}

Install(w, ds) ==
    /\ ~w.overflow
    /\ Len(ds) <= MaxInFlight
    /\ self' = w.self
    /\ guild_objs' = [o \in DOMAIN w.objs \cap Referenced(w, ds) |-> w.objs[o]]
    /\ listeners' = w.listeners
    /\ dispatches' = ds
    /\ client_guilds' = w.client_guilds
    /\ aj_state' = w.aj
    /\ api' = w.api
    /\ orphan_timers' = w.orphans
    /\ invite_logs' = w.logs
    /\ life' = w.life

\* One step of the coroutine of dispatch i, with result r. An outcome in
\* which something outside the object fails is a fault of the environment.
Step(i, ok, r) ==
    LET d == dispatches[i]
        finished == r.t.pc = "done"
        d1 == IF finished THEN next_listener(d, r.t, r.w) ELSE [d EXCEPT !.task = r.t]
        ds1 == IF finished /\ d1.todo = <<>> THEN RemoveAt(dispatches, i)
               ELSE [dispatches EXCEPT ![i] = d1]
        ds2 == ds1 \o emit_all(r.w.self, r.w.listeners, r.w.emits)
    IN /\ Install(r.w, ds2)
       /\ done' = IF finished
                  THEN [op |-> r.t.fnc, arg |-> r.t.arg, res |-> r.t.res, phase |-> r.t.phase,
                        init |-> r.t.init, dropped |-> r.t.dropped, why |-> r.t.why,
                        obs |-> r.t.obs, rest |-> Tail(d.todo)]
                  ELSE NotDone
       /\ IF ok THEN budget' = budget
          ELSE budget.faults > 0 /\ budget' = [budget EXCEPT !.faults = @ - 1]
       /\ UNCHANGED <<remote_uses, arg_name, match_result, tm, rt, lists, gui>>

AtPc(i, pc) == i \in 1..Len(dispatches) /\ dispatches[i].task.pc = pc

\* The event loop starts the next listener of a dispatch.
StartListener(i) ==
    /\ AtPc(i, "idle")
    /\ LET l == Head(dispatches[i].todo)
           t == Task(l.fnc, dispatches[i].arg, l.owner)
           w == World
       IN Step(i, TRUE,
               CASE l.owner # "X" -> Finish(w, t, "ok")
                 [] l.fnc = "initialize" -> init_begin(w, t, "ACCOUNT", "ctrl")
                 [] l.fnc \in {"_close", "_on_update"} -> close_begin(w, t)
                 [] l.fnc = "_on_guild_join" -> on_guild_join_begin(w, t)
                 [] l.fnc = "_on_guild_remove" -> on_guild_remove_begin(w, t)
                 [] l.fnc = "_join_guilds" -> jg_begin(w, t)
                 [] l.fnc = "_on_member_join" -> on_member_join_begin(w, t)
                 [] OTHER -> on_invite_delete(w, t))

T(i) == dispatches[i].task

ResumeInitAj(i) == AtPc(i, "i_aj") /\ \E ok \in BOOLEAN : Step(i, ok, init_resume_aj(World, T(i), ok))
ResumeInitInv(i) ==
    AtPc(i, "i_inv") /\ \E http_ok \in BOOLEAN :
        Step(i, http_ok, init_counts(World, T(i), fetched_invites(World, remote_uses, http_ok)))
ResumeInitMk(i) == AtPc(i, "i_mk") /\ \E ok \in BOOLEAN : Step(i, ok, init_resume_mk(World, T(i), ok))
ResumeCloseWait(i) ==
    AtPc(i, "c_wait") /\ self.update_semaphore = 1 /\ Step(i, TRUE, close_begin(World, T(i)))
ResumeCloseT1(i) == AtPc(i, "c_t1") /\ Step(i, TRUE, close_resume_t1(World, T(i)))
ResumeCloseT2(i) == AtPc(i, "c_t2") /\ Step(i, TRUE, close_resume_t2(World, T(i)))
ResumeCloseAj(i) == AtPc(i, "c_aj") /\ Step(i, TRUE, close_resume_aj(World, T(i)))
ResumeCloseG(i) == AtPc(i, "c_g") /\ Step(i, TRUE, close_resume_g(World, T(i)))
ResumeJoinMk(i) ==
    AtPc(i, "j_mk") /\ \E ok \in BOOLEAN : Step(i, ok, on_guild_join_resume(World, T(i), ok))
ResumeRemoveClose(i) == AtPc(i, "r_close") /\ Step(i, TRUE, on_guild_remove_resume(World, T(i)))
ResumeJgWait(i) ==
    AtPc(i, "jg_wait") /\ self.update_semaphore = 1 /\ Step(i, TRUE, jg_begin(World, T(i)))
ResumeJgNext(i) ==
    AtPc(i, "jg_next") /\ \E y \in BOOLEAN : Step(i, y, jg_resume_next(World, T(i), y))
ResumeJgJoin(i) ==
    AtPc(i, "jg_join") /\ \E j \in BOOLEAN : Step(i, j, jg_resume_join(World, T(i), j))
ResumeMemberInv(i) ==
    AtPc(i, "m_inv") /\ \E http_ok \in BOOLEAN :
        Step(i, http_ok, member_join_counts(World, T(i), fetched_invites(World, remote_uses, http_ok)))
ResumeMemberLog(i) == AtPc(i, "m_log") /\ Step(i, TRUE, Finish(World, T(i), "ok"))

\* ------------------------------------------------------------ environment
\* An action of the environment or of the user: world v, new dispatches ds,
\* what it completed.
Env(v, ds, completed) ==
    /\ Install(v, dispatches \o ds)
    /\ done' = completed
    /\ UNCHANGED <<arg_name, match_result, tm, rt, lists, gui>>

Spend(what) == budget[what] > 0 /\ budget' = [budget EXCEPT ![what] = @ - 1]

\* The account initializes the object it was given.
ParentInitialize ==
    /\ Spend("init")
    /\ Env(World, direct("initialize"), NotDone)
    /\ UNCHANGED remote_uses

\* The account removes the object (remove_object, or its server_removed).
ParentClose ==
    /\ life = "Active"
    /\ Spend("close")
    /\ Env(World, direct("_close"), NotDone)
    /\ UNCHANGED remote_uses

\* _close is called on an object that is not Active: one whose initialize
\* was never called, or one that is closed already.
ParentCloseInactive ==
    /\ life = "Closed" \/ (life = "Uninitialized" /\ budget.init > 0)
    /\ Spend("close")
    /\ Env(World, direct("_close"), NotDone)
    /\ UNCHANGED remote_uses

\* The keyword arguments update() is called with.
UpdateKwargs ==
    { [include_pattern |-> <<"a", " ", "|", "b">>],
      [invite_track |-> <<>>],
      [invite_track |-> <<1>>, include_pattern |-> <<"a", " ", "|", "b">>],
      [invite_track |-> <<>>, messages |-> <<Original(2)>>] }

\* AutoGUILD.update: emits server_update with the object as the target. The
\* payload also notes the state the object was in at the call.
update(s, ls, kwargs, at) ==
    emit(s, ls, "server_update", [target |-> "X", kwargs |-> kwargs, at |-> at])

\* No initialize, update or close of the object is queued or running.
LifecycleIdle ==
    \A i \in 1..Len(dispatches) : \A k \in 1..Len(dispatches[i].todo) :
        LET l == dispatches[i].todo[k]
        IN l.owner = "X" => l.fnc \notin {"initialize", "_on_update", "_close"}

Update ==
    /\ self._event_ctrl # "None"
    /\ Spend("updates")
    /\ \E kw \in UpdateKwargs :
        LET ds == update(self, listeners, kw, life)
            todo == IF ds = <<>> THEN <<>> ELSE ds[1].todo
        IN Env(World, ds,
               Done("update",
                    [own |-> Count(todo, LAMBDA l : l.owner = "X" /\ l.fnc = "_on_update"),
                     other |-> Count(todo, LAMBDA l : ~(l.owner = "X" /\ l.fnc = "_on_update"))],
                    "emitted", IF LifecycleIdle THEN life ELSE "Busy"))
    /\ UNCHANGED remote_uses

\* update() of another object that listens on the same EventController.
UpdateOther ==
    /\ Spend("other_updates")
    /\ LET ds == emit(self, listeners, "server_update", [target |-> "Y", kwargs |-> <<>>, at |-> life])
           todo == IF ds = <<>> THEN <<>> ELSE ds[1].todo
       IN Env(World, ds,
              Done("update_other",
                   [own |-> Count(todo, LAMBDA l : l.owner = "X"),
                    other |-> Count(todo, LAMBDA l : l.owner # "X")],
                   "emitted", life))
    /\ UNCHANGED remote_uses

AddMessage ==
    /\ api.op = "none"
    /\ Spend("msg_calls")
    /\ \E m \in Msgs :
        LET v == add_message(World, Original(m))
        IN IF v.api.pending = <<>>
           THEN Env([v EXCEPT !.api = IdleApi], <<>>,
                    Done("add_message", m, v.api.res, v.api.at))
           ELSE Env(v, <<>>, NotDone)
    /\ UNCHANGED remote_uses

RemoveMessage ==
    /\ api.op = "none"
    /\ Spend("msg_calls")
    /\ \E m \in Msgs :
        LET v == remove_message(World, Original(m))
        IN IF v.api.pending = <<>>
           THEN Env([v EXCEPT !.api = IdleApi], <<>>,
                    [Done("remove_message", m, v.api.res, v.api.at)
                        EXCEPT !.obs = <<Lacked(World, Original(m))>>])
           ELSE Env(v, <<>>, NotDone)
    /\ UNCHANGED remote_uses

\* One of the futures gathered by add_message / remove_message runs.
GuildFuture ==
    /\ \E k \in 1..Len(api.pending) :
        LET v == guild_future(World, api.pending[k])
            rest == RemoveAt(api.pending, k)
        IN IF rest = <<>>
           THEN Env([v EXCEPT !.api = IdleApi], <<>>,
                    Done(api.op, api.msg, api.res, api.at))
           ELSE Env([v EXCEPT !.api.pending = rest], <<>>, NotDone)
    /\ UNCHANGED <<budget, remote_uses>>

DiscordGuildJoin ==
    /\ Spend("guild_events")
    /\ \E g \in Guilds \ client_guilds :
        LET v == [World EXCEPT !.client_guilds = @ \cup {g}]
        IN Env(v, emit(self, listeners, "discord_guild_join", g), NotDone)
    /\ UNCHANGED remote_uses

DiscordGuildRemove ==
    /\ Spend("guild_events")
    /\ \E g \in client_guilds :
        LET v == [World EXCEPT !.client_guilds = @ \ {g}]
        IN Env(v, emit(self, listeners, "discord_guild_remove", g), NotDone)
    /\ UNCHANGED remote_uses

DiscordMemberJoin ==
    /\ Spend("member_events")
    /\ \E g \in client_guilds, used \in SUBSET {i \in DOMAIN remote_uses : TRUE} :
        /\ Cardinality(used) <= 1
        /\ \A i \in used : InviteGuild(i) = g
        /\ remote_uses' = [i \in DOMAIN remote_uses |->
                              IF i \in used THEN remote_uses[i] + 1 ELSE remote_uses[i]]
        /\ Env(World, emit(self, listeners, "discord_member_join", g), NotDone)

DiscordInviteDelete ==
    /\ Spend("member_events")
    /\ \E i \in DOMAIN remote_uses :
        /\ remote_uses' = [j \in DOMAIN remote_uses \ {i} |-> remote_uses[j]]
        /\ Env(World, emit(self, listeners, "discord_invite_delete",
                           [guild |-> InviteGuild(i), id |-> i]), NotDone)

\* The removal timer fires: server_removed is emitted and the account
\* closes the object.
FireRemovalTimer ==
    /\ \/ /\ self._removal_timer_handle = "armed"
          /\ Env([World EXCEPT !.self._removal_timer_handle = "done"], direct("_close"), NotDone)
       \/ /\ orphan_timers.removal > 0
          /\ Env([World EXCEPT !.orphans.removal = @ - 1], direct("_close"), NotDone)
    /\ UNCHANGED <<budget, remote_uses>>

\* The auto-join timer fires: auto_guild_start_join is emitted. The payload
\* also notes the state the object was in when the timer fired.
FireJoinTimer ==
    /\ \/ /\ self._guild_join_timer_handle = "armed"
          /\ Env([World EXCEPT !.self._guild_join_timer_handle = "done"],
                 emit(self, listeners, "auto_guild_start_join", [target |-> "X", at |-> life]),
                 NotDone)
       \/ /\ orphan_timers.join > 0
          /\ Env([World EXCEPT !.orphans.join = @ - 1],
                 emit(self, listeners, "auto_guild_start_join", [target |-> "X", at |-> life]),
                 NotDone)
    /\ UNCHANGED <<budget, remote_uses>>

\* ---------------------------------------------------------------- messages
\* A TextMESSAGE attached to an initialized guild: its data, its channels,
\* the channels on which delivery fails, the send under way (the payload it
\* rendered, the channel it is at, its report), what each channel got, and
\* the data the last update asked for.
Payloads == {"Hello world", "Goodbye world"}

TextMESSAGE(data, n, bad) ==
    [data |-> data, channels |-> [i \in 1..n |-> i], bad |-> bad, attached |-> TRUE,
     pc |-> "idle", payload |-> "none", pos |-> 0,
     report |-> [successful |-> <<>>, failed |-> <<>>],
     sent_messages |-> [c \in {} |-> "none"], rounds |-> 0, updated |-> FALSE,
     requested |-> data]

NoMessage == [TextMESSAGE("none", 0, {}) EXCEPT !.attached = FALSE]

\* An update that leaves the data as it was.
update_data_lost(m, d) == [m EXCEPT !.updated = TRUE, !.rounds = @ + 1, !.requested = d]

\* message.update(data=d): the message is closed and initialized again with
\* its parameters, data overridden; it stays attached to its guild.
update_data(m, d) ==
    [m EXCEPT !.data = d, !.updated = TRUE, !.rounds = @ + 1, !.requested = d]

\* _send up to the first delivery: the payload is rendered from the data
send_begin(m) ==
    [m EXCEPT !.pc = "sending", !.payload = m.data, !.pos = 1,
              !.report = [successful |-> <<>>, failed |-> <<>>]]

\* A send that gives up at the first channel that fails.
send_channel_stop(m) ==
    LET c == m.channels[m.pos]
    IN IF c \in m.bad
       THEN [m EXCEPT !.report.failed = Append(@, [id |-> c, reason |-> "forbidden"]),
                      !.pos = Len(m.channels) + 1, !.pc = "idle"]
       ELSE [m EXCEPT !.report.successful = Append(@, [id |-> c]),
                      !.sent_messages = (c :> m.payload) @@ @,
                      !.pos = @ + 1,
                      !.pc = IF m.pos = Len(m.channels) THEN "idle" ELSE @]

\* _send, one channel: the delivery is attempted and its outcome recorded;
\* a failure is recorded with its reason and the send goes on.
send_channel(m) ==
    LET c == m.channels[m.pos]
        m1 == IF c \in m.bad
              THEN [m EXCEPT !.report.failed = Append(@, [id |-> c, reason |-> "forbidden"])]
              ELSE [m EXCEPT !.report.successful = Append(@, [id |-> c]),
                             !.sent_messages = (c :> m.payload) @@ @]
    IN [m1 EXCEPT !.pos = @ + 1, !.pc = IF m.pos = Len(m.channels) THEN "idle" ELSE @]

\* -------------------------------------------------------- removal deadline
\* remove_after as given to __init__: None, a timedelta or a datetime.
NoRemoval == [kind |-> "None", v |-> 0]
timedelta(d) == [kind |-> "timedelta", v |-> d]
datetime(at) == [kind |-> "datetime", v |-> at]

RemoveAfters ==
    {NoRemoval} \cup {timedelta(d) : d \in 0..MaxDelay} \cup {datetime(at) : at \in 0..MaxClock}

NoTimer == [st |-> "None", when |-> 0]

\* An AutoGUILD constructed with remove_after at instant 0 of the clock and
\* not initialized yet: its _remove_after, its removal timer, the instant
\* of its initialize and the instant server_removed was emitted for it.
Deadline(remove_after) ==
    [now |-> 0, given |-> remove_after, _remove_after |-> remove_after,
     _removal_timer_handle |-> NoTimer, init_at |-> -1, emitted_at |-> -1]

NoDeadline == Deadline(NoRemoval)

\* initialize, lines 283-296, at instant now: a timedelta is added to now,
\* anything else is replaced by now; the timer is armed for the result.
removal_schedule(r, now) ==
    IF r._remove_after.kind = "None" THEN [r EXCEPT !.init_at = now]
    ELSE LET at == IF r._remove_after.kind = "timedelta"
                   THEN datetime(now + r._remove_after.v)
                   ELSE datetime(now)
         IN [r EXCEPT !.init_at = now, !._remove_after = at,
                      !._removal_timer_handle = [st |-> "armed", when |-> at.v]]

\* async_util.call_at: the callback is due once the clock has reached the
\* instant it was scheduled for.
Due(r) == r._removal_timer_handle.st = "armed" /\ r._removal_timer_handle.when <= r.now

\* ------------------------------------------------------------ guild cache
\* The list objects by identity: the one _cache is bound to, the one a
\* caller got from the guilds property (0 for none) with what it held then.
NoLists == [heap |-> <<>>, cache |-> 0, held |-> 0, seen |-> <<>>]

ListIds == 1..MaxLists

\* __init__, line 126: `self._cache = []`
empty_cache == [heap |-> (1 :> <<>>), cache |-> 1, held |-> 0, seen |-> <<>>]

\* A query that clears and refills the list _cache is bound to.
get_guilds_in_place(l, guilds) == [l EXCEPT !.heap[l.cache] = guilds]

\* _get_guilds, lines 161-165: the comprehension builds a new list object
\* and _cache is bound to it; a list nothing refers to any more is gone.
get_guilds_list(l, guilds) ==
    LET o == Min(ListIds \ {l.cache, l.held})
    IN [l EXCEPT !.cache = o,
                 !.heap = [i \in {o} \cup ({l.held} \ {0}) |-> IF i = o THEN guilds ELSE l.heap[i]]]

\* The guilds property, lines 148-151: the list _cache is bound to, itself
guilds_property(l) == [l EXCEPT !.held = l.cache, !.seen = l.heap[l.cache]]

\* ------------------------------------------------------- connection client
Clients == {"A", "B"}     \* the RemoteConnectionCLIENT objects the GUI holds

\* RemoteConnectionCLIENT.__init__, lines 183-184, and the call under way:
\* the await it is suspended at, and connected and GLOBALS.connection as
\* they were when it was called.
RemoteConnectionCLIENT ==
    [session |-> "None", connected |-> FALSE, pc |-> "idle", was |-> FALSE, at_call |-> "None"]

\* What the call that last returned was and did.
Returned(op, c, res, cl, before, after) ==
    [op |-> op, client |-> c, res |-> res, was |-> cl.was, at_call |-> cl.at_call,
     connected |-> cl.connected, session |-> cl.session, before |-> before, after |-> after]

NoCall == Returned("none", "None", "none", RemoteConnectionCLIENT, "None", "None")

\* class GLOBALS, lines 26-27, the clients and the call that last returned
NoGui == [connection |-> "None", clients |-> [c \in {} |-> RemoteConnectionCLIENT], last |-> NoCall]

Gui == [connection |-> "None", clients |-> [c \in Clients |-> RemoteConnectionCLIENT],
        last |-> NoCall]

\* The except clause of initialize, lines 222-224, before its await:
\* self.session.close() on a client that has no session raises
\* AttributeError in place of the exception caught.
connector_except(g, c) ==
    IF g.clients[c].session = "None"
    THEN [g EXCEPT !.clients[c].pc = "idle",
                   !.last = Returned("initialize", c, "AttributeError", g.clients[c],
                                     g.connection, g.connection)]
    ELSE [g EXCEPT !.clients[c].pc = "except_close"]

\* RemoteConnectionCLIENT.initialize, lines 215-219, up to `await
\* self._ping()`: the session is built, tracing is initialized; fails tells
\* which of the two raised, if any.
connector_initialize(g, c, fails) ==
    LET g1 == [g EXCEPT !.clients[c].was = g.clients[c].connected,
                        !.clients[c].at_call = g.connection]
    IN IF fails = "session" THEN connector_except(g1, c)
       ELSE LET g2 == [g1 EXCEPT !.clients[c].session = "open"]
            IN IF fails = "tracing" THEN connector_except(g2, c)
               ELSE [g2 EXCEPT !.clients[c].pc = "ping"]

\* initialize, lines 219-221, after the await; _request, lines 204-206,
\* raises for a status that is not 200
connector_pinged(g, c, status_200) ==
    IF status_200
    THEN LET g1 == [g EXCEPT !.connection = c, !.clients[c].connected = TRUE,
                             !.clients[c].pc = "idle"]
         IN [g1 EXCEPT !.last = Returned("initialize", c, "ok", g1.clients[c], g.connection, c)]
    ELSE connector_except(g, c)

\* initialize, lines 223-224, after `await self.session.close()`: raise
connector_except_closed(g, c) ==
    LET g1 == [g EXCEPT !.clients[c].session = "closed", !.clients[c].pc = "idle"]
    IN [g1 EXCEPT !.last = Returned("initialize", c, "raised", g1.clients[c],
                                    g.connection, g.connection)]

\* shutdown, lines 227-228, up to `await self.session.close()`
connector_shutdown(g, c) ==
    LET g1 == [g EXCEPT !.clients[c].was = g.clients[c].connected,
                        !.clients[c].at_call = g.connection]
    IN IF g.clients[c].session = "None"
       THEN [g1 EXCEPT !.last = Returned("shutdown", c, "AttributeError", g1.clients[c],
                                         g.connection, g.connection)]
       ELSE [g1 EXCEPT !.clients[c].pc = "closing"]

\* shutdown, line 229, after the await
connector_shutdown_closed(g, c) ==
    LET g1 == [g EXCEPT !.clients[c].session = "closed", !.clients[c].connected = FALSE,
                        !.clients[c].pc = "idle"]
    IN [g1 EXCEPT !.last = Returned("shutdown", c, "ok", g1.clients[c], g.connection, g.connection)]

\* get_connection, lines 267-268
get_connection(g) == g.connection

\* ----------------------------------------------------------- specification
Budget(i, c, u, o, g, m, e, f) ==
    [init |-> i, close |-> c, updates |-> u, other_updates |-> o, guild_events |-> g,
     msg_calls |-> m, member_events |-> e, faults |-> f]

Plain ==
    [include_pattern |-> <<"a">>, exclude_pattern |-> None, remove_after |-> "None",
     messages |-> <<Original(1)>>, auto_join |-> "None", invite_track |-> <<>>]

Tracking ==
    [include_pattern |-> <<"a">>, exclude_pattern |-> <<"b">>, remove_after |-> "timedelta",
     messages |-> <<>>, auto_join |-> "GuildDISCOVERY", invite_track |-> <<1>>]

Joining ==
    [include_pattern |-> <<"a">>, exclude_pattern |-> None, remove_after |-> "None",
     messages |-> <<>>, auto_join |-> "GuildDISCOVERY", invite_track |-> <<>>]

TwoInvites ==
    [include_pattern |-> <<"a", "|", "b">>, exclude_pattern |-> None, remove_after |-> "None",
     messages |-> <<>>, auto_join |-> "None", invite_track |-> <<1, 2>>]

\* The runs explored: a configuration and what the environment may do in it.
Scenario(cfg, guilds, b) == [cfg |-> cfg, guilds |-> guilds, budget |-> b]

Scenarios ==
    { Scenario(Plain, {1, 2}, Budget(1, 0, 0, 0, 1, MaxMsgCalls, 0, 0)),
      Scenario(Plain, {1, 2}, Budget(1, 0, 0, 0, MaxGuildEvents, MaxMsgCalls - 1, 0, 0)),
      Scenario(Plain, {1, 2}, Budget(1, 0, 1, 0, 0, MaxMsgCalls - 1, 0, 0)),
      Scenario(Plain, {1, 2}, Budget(1, 1, MaxUpdates, 0, 1, 0, 0, 0)),
      Scenario(Plain, {1, 2}, Budget(1, 1, 1, 1, 1, 0, 0, MaxFaults)),
      Scenario(Plain, {1, 2, 4}, Budget(1, 1, 0, 0, 1, 0, 0, 0)),
      Scenario(Tracking, {1, 2}, Budget(1, 1, 0, 0, 0, 0, MaxMemberEvents, MaxFaults)),
      Scenario(Tracking, {1, 2}, Budget(1, 1, 1, 0, 0, 0, 0, 0)),
      Scenario(Tracking, {1, 2}, Budget(1, 0, 1, 0, 0, 0, 0, MaxFaults)),
      Scenario(Joining, {1, 2, 4}, Budget(1, 0, 0, 0, 0, 0, 0, 0)),
      Scenario(TwoInvites, {1, 2}, Budget(1, 0, 0, 0, 0, 0, MaxMemberEvents + 1, MaxFaults)),
      Scenario(TwoInvites, {1, 2}, Budget(1, MaxCloses, 0, 0, 0, 0, 0, 0)) }

Init ==
    /\ \E sc \in Scenarios :
        /\ self = __init__([update_semaphore |-> 1], sc.cfg)
        /\ budget = sc.budget
        /\ client_guilds = sc.guilds
    /\ guild_objs = <<>>
    /\ listeners = <<Listener("server_update", "_on_update", "Y", "is_self")>>
    /\ dispatches = <<>>
    /\ aj_state = "new"
    /\ api = IdleApi
    /\ remote_uses = [i \in Invites |-> 0]
    /\ invite_logs = <<>>
    /\ orphan_timers = [removal |-> 0, join |-> 0]
    /\ life = "Uninitialized"
    /\ done = NotDone
    /\ arg_name = None
    /\ match_result = "none"
    /\ tm = NoMessage
    /\ rt = NoDeadline
    /\ lists = NoLists
    /\ gui = NoGui

Coroutine ==
    \E i \in 1..MaxInFlight :
        \/ StartListener(i)
        \/ ResumeInitAj(i) \/ ResumeInitInv(i) \/ ResumeInitMk(i)
        \/ ResumeCloseWait(i) \/ ResumeCloseT1(i) \/ ResumeCloseT2(i)
        \/ ResumeCloseAj(i) \/ ResumeCloseG(i)
        \/ ResumeJoinMk(i) \/ ResumeRemoveClose(i)
        \/ ResumeJgWait(i) \/ ResumeJgNext(i) \/ ResumeJgJoin(i)
        \/ ResumeMemberInv(i) \/ ResumeMemberLog(i)

Next ==
    \/ ParentInitialize \/ ParentClose \/ ParentCloseInactive
    \/ Update \/ UpdateOther
    \/ AddMessage \/ RemoveMessage \/ GuildFuture
    \/ DiscordGuildJoin \/ DiscordGuildRemove
    \/ DiscordMemberJoin \/ DiscordInviteDelete
    \/ FireRemovalTimer \/ FireJoinTimer
    \/ Coroutine

Spec == Init /\ [][Next]_vars

\* ------------------------------------------------------- one at a time
\* The same program used one operation at a time: the user and the
\* environment act only when nothing is queued or running, so no two
\* coroutines are ever suspended together.
Quiet == dispatches = <<>> /\ api.op = "none"

SeqParentInitialize == Quiet /\ ParentInitialize
SeqParentClose == Quiet /\ ParentClose
SeqParentCloseInactive == Quiet /\ ParentCloseInactive
SeqUpdate == Quiet /\ Update
SeqUpdateOther == Quiet /\ UpdateOther
SeqAddMessage == Quiet /\ AddMessage
SeqRemoveMessage == Quiet /\ RemoveMessage
SeqDiscordGuildJoin == Quiet /\ DiscordGuildJoin
SeqDiscordGuildRemove == Quiet /\ DiscordGuildRemove
SeqDiscordMemberJoin == Quiet /\ DiscordMemberJoin
SeqDiscordInviteDelete == Quiet /\ DiscordInviteDelete
SeqFireRemovalTimer == Quiet /\ FireRemovalTimer
SeqFireJoinTimer == Quiet /\ FireJoinTimer

SeqCoroutine ==
    \/ StartListener(1)
    \/ ResumeInitAj(1) \/ ResumeInitInv(1) \/ ResumeInitMk(1)
    \/ ResumeCloseT1(1) \/ ResumeCloseT2(1) \/ ResumeCloseAj(1) \/ ResumeCloseG(1)
    \/ ResumeJoinMk(1) \/ ResumeRemoveClose(1)
    \/ ResumeJgNext(1) \/ ResumeJgJoin(1)
    \/ ResumeMemberInv(1) \/ ResumeMemberLog(1)

NextSeq ==
    \/ SeqParentInitialize \/ SeqParentClose \/ SeqParentCloseInactive
    \/ SeqUpdate \/ SeqUpdateOther
    \/ SeqAddMessage \/ SeqRemoveMessage \/ GuildFuture
    \/ SeqDiscordGuildJoin \/ SeqDiscordGuildRemove
    \/ SeqDiscordMemberJoin \/ SeqDiscordInviteDelete
    \/ SeqFireRemovalTimer \/ SeqFireJoinTimer
    \/ SeqCoroutine

SpecSeq == Init /\ [][NextSeq]_vars

\* ------------------------------------------------------------ the matcher
\* The name match on its own: an AutoGUILD constructed from any raw pattern
\* pair, asked about any name.
InitMatch ==
    /\ \E inc \in SeqsUpTo(PatChars, MaxPatLen), exc \in SeqsUpTo(PatChars, MaxPatLen) \cup {None} :
        self = __init__([update_semaphore |-> 1],
                        [Plain EXCEPT !.include_pattern = inc, !.exclude_pattern = exc])
    /\ budget = Budget(0, 0, 0, 0, 0, 0, 0, 0)
    /\ guild_objs = <<>>
    /\ listeners = <<>>
    /\ dispatches = <<>>
    /\ client_guilds = {}
    /\ aj_state = "new"
    /\ api = IdleApi
    /\ remote_uses = <<>>
    /\ invite_logs = <<>>
    /\ orphan_timers = [removal |-> 0, join |-> 0]
    /\ life = "Uninitialized"
    /\ done = NotDone
    /\ arg_name = None
    /\ match_result = "none"
    /\ tm = NoMessage
    /\ rt = NoDeadline
    /\ lists = NoLists
    /\ gui = NoGui

CheckNameMatch ==
    /\ \E name \in SeqsUpTo(NameChars, MaxNameLen) \cup {None} :
        /\ arg_name' = name
        /\ match_result' = _check_name_match(self, name)
    /\ UNCHANGED <<self, guild_objs, listeners, dispatches, client_guilds, aj_state, api,
                   budget, remote_uses, invite_logs, orphan_timers, life, done, tm, rt, lists, gui>>

SpecMatch == InitMatch /\ [][CheckNameMatch]_vars

\* ------------------------------------------------------------ the message
\* A message on its own: attached to an initialized guild, with any number
\* of channels and any of them failing, updated and sent round after round.
InitSend ==
    /\ \E n \in 1..MaxChannels : \E bad \in SUBSET (1..n) : tm = TextMESSAGE("START", n, bad)
    /\ self = __init__([update_semaphore |-> 1], Plain)
    /\ budget = Budget(0, 0, 0, 0, 0, 0, 0, 0)
    /\ guild_objs = <<>>
    /\ listeners = <<>>
    /\ dispatches = <<>>
    /\ client_guilds = {}
    /\ aj_state = "new"
    /\ api = IdleApi
    /\ remote_uses = <<>>
    /\ invite_logs = <<>>
    /\ orphan_timers = [removal |-> 0, join |-> 0]
    /\ life = "Uninitialized"
    /\ done = NotDone
    /\ arg_name = None
    /\ match_result = "none"
    /\ rt = NoDeadline
    /\ lists = NoLists
    /\ gui = NoGui

NotTheMessage ==
    <<self, guild_objs, listeners, dispatches, client_guilds, aj_state, api, budget,
      remote_uses, invite_logs, orphan_timers, life, done, arg_name, match_result,
      rt, lists, gui>>

MessageUpdate ==
    /\ tm.attached /\ tm.pc = "idle" /\ tm.rounds < MaxRounds
    /\ \E d \in Payloads : tm' = update_data(tm, d)
    /\ UNCHANGED NotTheMessage

MessageSend ==
    /\ tm.attached /\ tm.pc = "idle" /\ tm.updated
    /\ tm' = [send_begin(tm) EXCEPT !.updated = FALSE]
    /\ UNCHANGED NotTheMessage

MessageSendChannel ==
    /\ tm.pc = "sending"
    /\ tm' = send_channel(tm)
    /\ UNCHANGED NotTheMessage

NextSend == MessageUpdate \/ MessageSend \/ MessageSendChannel

SpecSend == InitSend /\ [][NextSend]_vars

\* ------------------------------------------------------- the removal timer
\* The removal deadline on its own: an object constructed with any
\* remove_after, initialized at any instant, its timer firing when due.
InitDeadline ==
    /\ \E r \in RemoveAfters : rt = Deadline(r)
    /\ self = __init__([update_semaphore |-> 1], Plain)
    /\ budget = Budget(0, 0, 0, 0, 0, 0, 0, 0)
    /\ guild_objs = <<>>
    /\ listeners = <<>>
    /\ dispatches = <<>>
    /\ client_guilds = {}
    /\ aj_state = "new"
    /\ api = IdleApi
    /\ remote_uses = <<>>
    /\ invite_logs = <<>>
    /\ orphan_timers = [removal |-> 0, join |-> 0]
    /\ life = "Uninitialized"
    /\ done = NotDone
    /\ arg_name = None
    /\ match_result = "none"
    /\ tm = NoMessage
    /\ lists = NoLists
    /\ gui = NoGui

NotTheDeadline ==
    <<self, guild_objs, listeners, dispatches, client_guilds, aj_state, api, budget,
      remote_uses, invite_logs, orphan_timers, life, done, arg_name, match_result,
      tm, lists, gui>>

\* Time passes; a timer that is due fires before the clock moves on.
DeadlineTick ==
    /\ rt.now < MaxClock /\ ~Due(rt)
    /\ rt' = [rt EXCEPT !.now = @ + 1]
    /\ UNCHANGED NotTheDeadline

DeadlineInitialize ==
    /\ rt.init_at = -1
    /\ rt' = removal_schedule(rt, rt.now)
    /\ UNCHANGED NotTheDeadline

\* The timer fires: event_ctrl.emit(EventID.server_removed, self)
DeadlineFire ==
    /\ Due(rt)
    /\ rt' = [rt EXCEPT !._removal_timer_handle.st = "done", !.emitted_at = rt.now]
    /\ UNCHANGED NotTheDeadline

NextDeadline == DeadlineTick \/ DeadlineInitialize \/ DeadlineFire

SpecDeadline == InitDeadline /\ [][NextDeadline]_vars

\* --------------------------------------------------------- the guild cache
\* The cache on its own: guild queries, reads of the guilds property and
\* changes of the client's guilds, in any order.
InitCache ==
    /\ \E cfg \in {Plain, Tracking, TwoInvites} : self = __init__([update_semaphore |-> 1], cfg)
    /\ client_guilds = {1, 2}
    /\ lists = empty_cache
    /\ budget = Budget(0, 0, 0, 0, 0, 0, 0, 0)
    /\ guild_objs = <<>>
    /\ listeners = <<>>
    /\ dispatches = <<>>
    /\ aj_state = "new"
    /\ api = IdleApi
    /\ remote_uses = <<>>
    /\ invite_logs = <<>>
    /\ orphan_timers = [removal |-> 0, join |-> 0]
    /\ life = "Uninitialized"
    /\ done = NotDone
    /\ arg_name = None
    /\ match_result = "none"
    /\ tm = NoMessage
    /\ rt = NoDeadline
    /\ gui = NoGui

NotTheLists ==
    <<guild_objs, listeners, dispatches, aj_state, api, budget, remote_uses, invite_logs,
      orphan_timers, life, arg_name, match_result, tm, rt, gui>>

\* self._get_guilds(); what completed notes the list _cache was bound to.
CacheQuery ==
    /\ self' = _get_guilds(World).self
    /\ lists' = get_guilds_list(lists, self'._cache)
    /\ done' = Done("_get_guilds", lists.cache, "ok", "none")
    /\ UNCHANGED client_guilds
    /\ UNCHANGED NotTheLists

\* A caller reads the guilds property and keeps what it got.
CacheRead ==
    /\ lists' = guilds_property(lists)
    /\ done' = NotDone
    /\ UNCHANGED <<self, client_guilds>>
    /\ UNCHANGED NotTheLists

CacheGuildJoin ==
    /\ \E g \in Guilds \ client_guilds : client_guilds' = client_guilds \cup {g}
    /\ done' = NotDone
    /\ UNCHANGED <<self, lists>>
    /\ UNCHANGED NotTheLists

CacheGuildRemove ==
    /\ \E g \in client_guilds : client_guilds' = client_guilds \ {g}
    /\ done' = NotDone
    /\ UNCHANGED <<self, lists>>
    /\ UNCHANGED NotTheLists

NextCache == CacheQuery \/ CacheRead \/ CacheGuildJoin \/ CacheGuildRemove

SpecCache == InitCache /\ [][NextCache]_vars

\* --------------------------------------------------- the connection client
\* The GUI's connection clients on their own: initialize and shutdown
\* called on either client in any order, the calls of the two overlapping.
InitConnect ==
    /\ gui = Gui
    /\ self = __init__([update_semaphore |-> 1], Plain)
    /\ budget = Budget(0, 0, 0, 0, 0, 0, 0, 0)
    /\ guild_objs = <<>>
    /\ listeners = <<>>
    /\ dispatches = <<>>
    /\ client_guilds = {}
    /\ aj_state = "new"
    /\ api = IdleApi
    /\ remote_uses = <<>>
    /\ invite_logs = <<>>
    /\ orphan_timers = [removal |-> 0, join |-> 0]
    /\ life = "Uninitialized"
    /\ done = NotDone
    /\ arg_name = None
    /\ match_result = "none"
    /\ tm = NoMessage
    /\ rt = NoDeadline
    /\ lists = NoLists

NotTheGui ==
    <<self, guild_objs, listeners, dispatches, client_guilds, aj_state, api, budget,
      remote_uses, invite_logs, orphan_timers, life, done, arg_name, match_result,
      tm, rt, lists>>

ClientAt(c, pc) == gui.clients[c].pc = pc

ClientInitialize(c) ==
    /\ ClientAt(c, "idle")
    /\ \E fails \in {"none", "session", "tracing"} : gui' = connector_initialize(gui, c, fails)
    /\ UNCHANGED NotTheGui

ClientPinged(c) ==
    /\ ClientAt(c, "ping")
    /\ \E status_200 \in BOOLEAN : gui' = connector_pinged(gui, c, status_200)
    /\ UNCHANGED NotTheGui

ClientExceptClosed(c) ==
    /\ ClientAt(c, "except_close")
    /\ gui' = connector_except_closed(gui, c)
    /\ UNCHANGED NotTheGui

ClientShutdown(c) ==
    /\ ClientAt(c, "idle")
    /\ gui' = connector_shutdown(gui, c)
    /\ UNCHANGED NotTheGui

ClientShutdownClosed(c) ==
    /\ ClientAt(c, "closing")
    /\ gui' = connector_shutdown_closed(gui, c)
    /\ UNCHANGED NotTheGui

NextConnect ==
    \E c \in Clients :
        \/ ClientInitialize(c) \/ ClientPinged(c) \/ ClientExceptClosed(c)
        \/ ClientShutdown(c) \/ ClientShutdownClosed(c)

SpecConnect == InitConnect /\ [][NextConnect]_vars

\* ----------------------------------------------------------------- claims
Found(p, name) == p # None /\ name # None /\ re_search(p, name)

\* C1: the name match is true exactly when the include pattern is found in
\* the name and the exclude pattern is absent or not found in it; a name found
\* by both patterns is no match, and a missing name never matches.
C1_NameMatch ==
    match_result # "none" =>
        /\ (match_result = "True") <=>
                /\ Found(self.include_pattern, arg_name)
                /\ (self.exclude_pattern = None \/ ~Found(self.exclude_pattern, arg_name))
        /\ Found(self.include_pattern, arg_name) /\ Found(self.exclude_pattern, arg_name)
                => match_result = "False"
        /\ arg_name = None => match_result = "False"

\* A name that an alternation of the include pattern finds and the exclude
\* pattern finds too was asked about.
C1_Witness ==
    /\ match_result = "False"
    /\ Found(self.include_pattern, arg_name)
    /\ Found(self.exclude_pattern, arg_name)
    /\ Cardinality(Alternatives(self.include_pattern)) = 2

\* The guilds the generated GUILD managers stand for, in list order.
Managed == [i \in 1..Len(self._gen_guilds) |-> guild_objs[self._gen_guilds[i]].apiobject]

\* The guilds of the client whose name matches.
Matching == {g \in client_guilds : _check_name_match(self, GuildName(g)) = "True"}

NoDuplicates(seq) == \A i, j \in 1..Len(seq) : seq[i] = seq[j] => i = j

\* No guild-join or guild-remove event is still being handled.
GuildEventsHandled ==
    \A i \in 1..Len(dispatches) :
        dispatches[i].ev \notin {"discord_guild_join", "discord_guild_remove"}

\* C2: when initialize has completed, no GUILD failed to initialize and every
\* guild event has been handled, the generated managers are exactly one for
\* each matching guild of the client and none for any other guild.
C2_OneManagerPerMatch ==
    done.init = "ok" /\ ~done.dropped /\ GuildEventsHandled =>
        Range(Managed) = Matching /\ NoDuplicates(Managed)

\* The message objects GUILD manager o holds.
Held(o) == Range(guild_objs[o]._messages)

\* Manager o holds a copy of message m that is an object of its own: not
\* the user's object and not an object another generated manager holds.
HoldsOwnCopy(o, m) ==
    \E c \in Held(o) :
        /\ c.val = m
        /\ c.oid # 0
        /\ \A i \in 1..Len(self._gen_guilds) :
               self._gen_guilds[i] # o => c \notin Held(self._gen_guilds[i])

\* C3: when add_message(m), called on the initialized object, has completed, m is in the template list and every
\* generated GUILD manager holds a copy of m, equal by value, that is neither
\* m itself nor the copy another manager holds.
C3_AddMessageFanOut ==
    done.op = "add_message" /\ done.res = "ok" /\ done.phase = "Active" =>
        /\ Original(done.arg) \in Range(self._messages)
        /\ \A i \in 1..Len(self._gen_guilds) : HoldsOwnCopy(self._gen_guilds[i], done.arg)

\* C4: when remove_message(m), called on the initialized object, has
\* completed, no object equal to m is in the template list and no generated
\* GUILD manager holds a copy of m.
C4_RemoveMessageEverywhere ==
    done.op = "remove_message" /\ done.res = "ok" /\ done.phase = "Active" =>
        /\ \A x \in Range(self._messages) : x.val # done.arg
        /\ \A i \in 1..Len(self._gen_guilds) :
               \A c \in Held(self._gen_guilds[i]) : c.val # done.arg

Registered(ev, fnc) == Count(listeners, LAMBDA l : l.owner = "X" /\ l.ev = ev /\ l.fnc = fnc)

\* The listeners every initialize registers are registered.
ListenersRegistered ==
    /\ Registered("server_update", "_on_update") >= 1
    /\ Registered("discord_guild_join", "_on_guild_join") >= 1
    /\ Registered("discord_guild_remove", "_on_guild_remove") >= 1

\* Every generated GUILD manager is running.
GeneratedRunning ==
    \A i \in 1..Len(self._gen_guilds) : guild_objs[self._gen_guilds[i]].st = "init"

\* C5: when an update of the Active object whose re-initialization raised has finished and its
\* initialize with the restored parameters went through, the failure was
\* raised to the caller and the object is Active, with its listeners
\* registered and its generated GUILD managers running.
C5_FailedUpdateRollsBack ==
    /\ done.op = "_on_update" /\ done.arg.at = "Active"
    /\ done.why = "initialize" /\ done.init = "ok"
    =>  /\ done.res = "raised"
        /\ life = "Active"
        /\ ListenersRegistered
        /\ GeneratedRunning

\* The overrides the finished update was called with.
Overrides == done.arg.kwargs

\* C6: when an update of the Active object that met no failure of its environment has finished,
\* the object is what a fresh object built from the merged parameters is after
\* its initialize: every override is in force, the template messages are the
\* overriding ones, and there is one running GUILD manager for each guild.
C6_UpdateAsFreshObject ==
    /\ done.op = "_on_update" /\ done.arg.at = "Active"
    /\ done.why # "initialize" /\ ~done.dropped
    =>  /\ "include_pattern" \in DOMAIN Overrides =>
               self.include_pattern = re_sub_bar(Overrides.include_pattern)
        /\ "messages" \in DOMAIN Overrides => self._messages = Overrides.messages
        /\ NoDuplicates(Managed)
        /\ GeneratedRunning

\* C7: update() on the Active object, no other initialize, update or close
\* of it under way, emits one server_update that runs the object's own update
\* handler once and the handler of no other object; and whenever the object
\* is Active with no such operation under way it has exactly one
\* server_update listener.
C7_OneUpdateHandler ==
    /\ done.op = "update" /\ done.phase = "Active" =>
           done.arg.own = 1 /\ done.arg.other = 0
    /\ life = "Active" /\ LifecycleIdle => Registered("server_update", "_on_update") = 1

\* The coroutines of function f that have begun and not finished.
MidFlight(f) ==
    {i \in 1..Len(dispatches) :
        dispatches[i].task.fnc = f /\ dispatches[i].task.pc \notin {"idle", "c_wait", "done"}}

\* C8: an update is never suspended mid-flight together with a guild
\* removal or with another update, and an update or a guild removal that
\* is suspended mid-flight holds the update semaphore.
C8_UpdateRemoveSerialized ==
    /\ Cardinality(MidFlight("_on_update")) <= 1
    /\ MidFlight("_on_update") = {} \/ MidFlight("_on_guild_remove") = {}
    /\ \A i \in MidFlight("_on_update") \cup MidFlight("_on_guild_remove") :
           dispatches[i].task.held

\* C9: when _close has closed the object, the EventController holds no
\* listener of the object.
C9_NoListenerAfterClose ==
    done.op = "_close" /\ done.res = "ok" =>
        \A i \in 1..Len(listeners) : listeners[i].owner # "X"

\* C10: when _close of the Active object has finished, neither timer can
\* fire any more, the auto-join capability, if there is one, is closed, and
\* every generated GUILD manager is closed.
C10_CloseReleasesAll ==
    done.op = "_close" /\ done.res = "ok" /\ done.phase = "Active" =>
        /\ self._removal_timer_handle \in {"None", "cancelled", "done"}
        /\ self._guild_join_timer_handle \in {"None", "cancelled", "done"}
        /\ self.auto_join # "None" => aj_state = "closed"
        /\ \A i \in 1..Len(self._gen_guilds) : guild_objs[self._gen_guilds[i]].st = "closed"

\* The steps a coroutine noted come in the order the ranks give.
InOrder(obs, rank(_)) ==
    \A i \in 1..Len(obs) : \A j \in i..Len(obs) : rank(obs[i].k) <= rank(obs[j].k)

Kinds(obs) == {obs[i].k : i \in 1..Len(obs)}

RankInCode(k) ==
    CASE k = "unregister" -> 1 [] k = "timer" -> 2 [] k = "capability" -> 3 [] OTHER -> 4

RankInSpec(k) ==
    CASE k = "timer" -> 1 [] k = "unregister" -> 2 [] k = "guild" -> 3 [] OTHER -> 4

\* C11 as amended: a _close that closed the object first unregistered its
\* listeners, then cancelled the timers, then closed the auto-join capability
\* and closed the generated GUILD managers last.
C11_CloseOrderInCode ==
    done.op = "_close" /\ done.res = "ok" => InOrder(done.obs, RankInCode)

C11_Witness ==
    /\ done.op = "_close" /\ done.res = "ok"
    /\ Kinds(done.obs) = {"unregister", "timer", "capability", "guild"}

\* C11 as stated: a _close that closed the object first cancelled the timers,
\* then unregistered its listeners, then closed the generated GUILD managers
\* and released the auto-join capability last.
C11_CloseOrderAsStated ==
    done.op = "_close" /\ done.res = "ok" => InOrder(done.obs, RankInSpec)

Last(seq) == seq[Len(seq)]

\* The auto-join firing that just ended, and how it ended.
FiringEnded(how) ==
    done.op = "_join_guilds" /\ done.obs # <<>> /\ Last(done.obs).k \in how

\* C12: an auto-join firing that ended with its candidate rejected by the
\* include/exclude rule, with a failed join or with a successful join has
\* armed the auto-join timer again.
C12_FiringRearms ==
    FiringEnded({"rejected", "failed", "joined"}) => self._guild_join_timer_handle = "armed"

LoopStopCondition ==
    \/ self.guild_query_iter = 0
    \/ self.guild_join_count >= JoinLimit
    \/ Cardinality(client_guilds) >= GUILD_MAX_AMOUNT

\* C13: no join is attempted once the feed is exhausted, the counted joins
\* have reached the limit or the client has 100 guilds; and a firing that
\* found the feed exhausted or the loop stopped leaves the object without
\* its auto_guild_start_join listener.
C13_LoopStopsForGood ==
    /\ \A i \in 1..Len(dispatches) :
            dispatches[i].task.fnc = "_join_guilds" /\ dispatches[i].task.pc = "jg_join"
                => ~LoopStopCondition
    /\ FiringEnded({"exhausted", "stopped"}) =>
            Registered("auto_guild_start_join", "_join_guilds") = 0

\* The comparison a member-join handler noted, all tracked invites fetched.
Comparison == Last(done.obs)

ComparedAll ==
    /\ done.op = "_on_member_join" /\ done.obs # <<>>
    /\ Comparison.before # <<>>
    /\ DOMAIN Comparison.before \subseteq DOMAIN Comparison.fresh

Increased == {i \in DOMAIN Comparison.before : Comparison.fresh[i] > Comparison.before[i]}

Without(seq, x) == SelectSeq(seq, LAMBDA y : y # x)

\* C15: a guild-remove handler for a guild without a generated manager raises
\* nothing, closes no GUILD and leaves the generated list as it was; for a
\* guild with one manager it closes that manager only and leaves the
\* generated list without it and otherwise as it was.
C15_GuildRemoveFrame ==
    done.op = "_on_guild_remove" =>
        LET found == done.obs[1]
            left == Last(done.obs)
        IN /\ found.had = 0 =>
                 /\ done.res = "ok" /\ Len(done.obs) = 1
                 /\ found.after = found.before /\ found.touched = {}
           /\ found.had = 1 =>
                 /\ Len(done.obs) = 2
                 /\ left.touched \subseteq {left.target}
                 /\ left.st = "closed"
                 /\ left.after = Without(left.before, left.target)

C15_Witness ==
    /\ done.op = "_on_guild_remove" /\ done.res = "ok"
    /\ done.obs[1].had = 0 /\ done.obs[1].before # <<>> /\ life = "Active"

C15_WitnessRemoved ==
    /\ done.op = "_on_guild_remove" /\ done.obs[1].had = 1
    /\ Len(Last(done.obs).after) = 1 /\ life = "Active"

\* C16: when a listener has raised, the listeners that the same emit
\* selected after it are all still to run, in their order: the exception
\* ended neither the dispatch nor the emitter.
C16_ListenerFailureIsolated ==
    done.res = "raised" /\ done.rest # <<>> =>
        \E i \in 1..Len(dispatches) :
            dispatches[i].todo = done.rest /\ dispatches[i].task = Idle

C16_Witness ==
    /\ done.op = "_on_member_join" /\ done.res = "raised"
    /\ Len(done.rest) = 1 /\ done.rest[1].fnc = "_on_member_join"

\* C17: the listeners a dispatch has still to run are those its emit
\* selected, less the ones that have run, in registration order, whatever
\* has been added to or removed from the listener list since.
C17_DispatchSnapshot ==
    \A i \in 1..Len(dispatches) :
        LET d == dispatches[i]
        IN d.todo = SubSeq(d.sel, d.ran + 1, Len(d.sel))

\* A dispatch whose listener is running while the listeners registered for
\* its event are no longer the ones its emit selected.
C17_Witness ==
    \E i \in 1..Len(dispatches) :
        LET d == dispatches[i]
        IN /\ d.ev # "direct" /\ d.task.pc # "idle"
           /\ SelectSeq(listeners, LAMBDA l : Accepts(self, l, d.ev, d.arg)) # d.sel

\* The notes of the initialize that just completed: from its list of
\* matching guilds on.
LastMatching == CHOOSE i \in 1..Len(done.obs) :
    done.obs[i].k = "matching" /\ \A j \in (i + 1)..Len(done.obs) : done.obs[j].k # "matching"

Built == SubSeq(done.obs, LastMatching + 1, Len(done.obs))

\* C20: a GUILD that failed to initialize was not added to the generated
\* list; an initialize that met such a failure still returned without
\* exception and went through all its matching guilds, adding a GUILD for
\* each one whose GUILD did initialize; a guild-join handler that met such a
\* failure returned without exception.
C20_FailedGuildDropped ==
    /\ done.op \in {"initialize", "_on_guild_join"} /\ done.dropped => done.res = "ok"
    /\ done.op = "_on_guild_join" =>
            \A i \in 1..Len(done.obs) :
                done.obs[i].k = "dropped" => ~done.obs[i].listed /\ done.obs[i].grew = 0
    /\ done.op \in {"initialize", "_on_update"} /\ done.init = "ok" =>
            /\ [i \in 1..Len(Built) |-> Built[i].g] = done.obs[LastMatching].guilds
            /\ \A i \in 1..Len(Built) :
                    IF Built[i].k = "dropped" THEN ~Built[i].listed /\ Built[i].grew = 0
                    ELSE Built[i].listed /\ Built[i].grew = 1

C20_Witness ==
    /\ done.op = "initialize" /\ done.res = "ok" /\ Len(Built) = 2
    /\ Built[1].k = "dropped" /\ Built[2].k = "made"
    /\ Len(self._gen_guilds) = 1

\* The send of the message has ended.
SendEnded == tm.attached /\ tm.pc = "idle" /\ tm.pos > 0

Ids(entries) == {entries[i].id : i \in 1..Len(entries)}

\* C18: a send over N channels of which exactly one fails ends with that one
\* channel in the failed list, the N-1 others in the successful list, and
\* every channel after the failing one attempted.
C18_FailureIsolated ==
    SendEnded /\ Cardinality(tm.bad) = 1 =>
        /\ Len(tm.report.failed) = 1 /\ Ids(tm.report.failed) = tm.bad
        /\ Len(tm.report.successful) = Len(tm.channels) - 1
        /\ Ids(tm.report.successful) = Range(tm.channels) \ tm.bad
        /\ tm.pos = Len(tm.channels) + 1

C18_Witness ==
    /\ SendEnded /\ Len(tm.channels) = MaxChannels /\ tm.bad = {1}
    /\ Ids(tm.report.successful) = {2, 3}

\* C19: a send that follows update(data=d) on the attached message, no
\* channel failing, ends with the message attached, d delivered to every
\* channel and no failed channel in the report, in every round.
C19_UpdatedDataSent ==
    SendEnded /\ ~tm.updated /\ tm.bad = {} =>
        /\ tm.attached
        /\ tm.payload = tm.requested
        /\ \A c \in Range(tm.channels) :
                c \in DOMAIN tm.sent_messages /\ tm.sent_messages[c] = tm.requested
        /\ tm.report.failed = <<>>

C19_Witness ==
    /\ SendEnded /\ tm.bad = {} /\ tm.rounds = MaxRounds /\ ~tm.updated
    /\ Len(tm.channels) = 2 /\ tm.requested = "Goodbye world"
    /\ \A c \in Range(tm.channels) : tm.sent_messages[c] = "Goodbye world"

\* The handlers of the object that serve events of Discord.
GuildHandlers == {"_on_guild_join", "_on_guild_remove", "_on_member_join", "_on_invite_delete"}

\* The guild the event a handler served was about.
HandledGuild == IF done.op = "_on_invite_delete" THEN done.arg.guild ELSE done.arg

\* C21: a guild-join, guild-remove, member-join or invite-delete handler of
\* the object has run only for an event whose guild name matches the
\* include/exclude rule of the object.
C21_ListenersGated ==
    done.op \in GuildHandlers =>
        _check_name_match(self, GuildName(HandledGuild)) = "True"

\* C22: server_removed is emitted at (initialize + d) for a remove_after
\* given as the duration d; for a remove_after given as the timestamp T that
\* the initialize did not come after, the remove_after property reports T
\* and server_removed is emitted at T and not before; for a remove_after of
\* None it is never emitted.
C22_RemovalDeadline ==
    /\ rt.given.kind = "timedelta" /\ rt.emitted_at # -1 =>
            rt.emitted_at = rt.init_at + rt.given.v
    /\ rt.given.kind = "datetime" /\ rt.init_at # -1 /\ rt.init_at <= rt.given.v =>
            /\ rt._remove_after = rt.given
            /\ rt.emitted_at # -1 => rt.emitted_at = rt.given.v
    /\ rt.given.kind = "None" => rt.emitted_at = -1

\* C23: the list a caller got from the guilds property holds what it held
\* when the caller got it, whatever queries came since; and a query binds
\* _cache to a list object that is not the one it was bound to, holding
\* the client's guilds that match the rule at the moment of the query.
C23_CacheReplacedNotMutated ==
    /\ lists.held # 0 => lists.heap[lists.held] = lists.seen
    /\ done.op = "_get_guilds" =>
            /\ lists.cache # done.arg
            /\ lists.heap[lists.cache] = SetToSeq(Matching)
            /\ self._cache = lists.heap[lists.cache]

\* A query has just replaced a list a caller still holds, and the two differ.
C23_Witness ==
    /\ done.op = "_get_guilds" /\ lists.held = done.arg
    /\ lists.seen # self._cache /\ lists.seen # <<>> /\ self._cache # <<>>

\* C24: the object's reference to its EventController is None as long as
\* initialize was never called, is not None while the object is Active, and
\* is None when _close has closed the object.
C24_EventCtrlOnlyWhileActive ==
    /\ life = "Uninitialized" /\ budget.init > 0 => self._event_ctrl = "None"
    /\ life = "Active" => self._event_ctrl # "None"
    /\ done.op = "_close" /\ done.res = "ok" => self._event_ctrl = "None"

\* C28: a _close called on an object whose initialize was never called, or
\* on an object that is closed already, does nothing: it unregisters no
\* listener, cancels no timer and closes neither the auto-join capability
\* nor a generated GUILD manager.
C28_CloseOfInactiveIsNoOp ==
    /\ done.op = "_close"
    /\ \/ done.phase = "Uninitialized" /\ budget.init > 0
       \/ done.phase = "Closed"
    =>  done.res = "nothing" /\ done.obs = <<>>

\* The steps of kind k the auto-join firing that just ended has noted.
Steps(k) == {i \in 1..Len(done.obs) : done.obs[i].k = k}

\* C25: an auto-join firing attempts at most one join, and none for a
\* candidate the client is in already; each such candidate adds one to the
\* join count, a successful join adds one and a failed join adds nothing.
C25_OneAttemptPerFiring ==
    done.op = "_join_guilds" =>
        /\ Cardinality(Steps("attempt")) <= 1
        /\ Cardinality(Steps("joined") \cup Steps("failed")) = Cardinality(Steps("attempt"))
        /\ \A i \in Steps("attempt") : ~done.obs[i].member /\ done.obs[i].after = done.obs[i].before
        /\ \A i \in Steps("already") :
                done.obs[i].member /\ done.obs[i].after = done.obs[i].before + 1
        /\ \A i \in Steps("joined") : done.obs[i].after = done.obs[i].before + 1
        /\ \A i \in Steps("failed") : done.obs[i].after = done.obs[i].before

\* A firing that skipped a candidate the client is in and then failed to
\* join the next one.
C25_Witness ==
    /\ done.op = "_join_guilds"
    /\ Cardinality(Steps("already")) = 1 /\ Cardinality(Steps("failed")) = 1
    /\ self.guild_join_count = 1

\* C30: the join count is never above the join limit of the auto-join
\* capability.
C30_JoinCountWithinLimit == self.guild_join_count <= JoinLimit

\* The invite step the initialize that just completed has noted.
InviteStep == {i \in 1..Len(done.obs) : done.obs[i].k = "invites"}

\* C26: an initialize that started invite tracking has dropped every
\* tracked invite it did not fetch and given every one it fetched the
\* fetched use count; it has returned without exception, with the
\* guild-join, guild-remove and update listeners registered and a GUILD
\* built for each matching guild.
C26_InviteTrackingStart ==
    done.op = "initialize" /\ InviteStep # {} =>
        /\ \A i \in InviteStep :
              LET n == done.obs[i]
              IN /\ DOMAIN n.after = DOMAIN n.tracked \cap DOMAIN n.fetched
                 /\ \A j \in DOMAIN n.after : n.after[j] = n.fetched[j]
        /\ done.res = "ok" /\ life = "Active"
        /\ ListenersRegistered
        /\ [i \in 1..Len(Built) |-> Built[i].g] = done.obs[LastMatching].guilds

\* An initialize that tracked two invites, fetched one of them with a use
\* count above zero, and dropped the other.
C26_Witness ==
    /\ done.op = "initialize" /\ InviteStep # {}
    /\ \E i \in InviteStep :
          /\ DOMAIN done.obs[i].tracked = {1, 2}
          /\ done.obs[i].after = (1 :> 1)
    /\ Len(Built) = 2

\* C27: a remove_message(m) of a template message that found a generated
\* GUILD manager without a copy of m has not failed, and no generated
\* GUILD manager holds a copy of m once it has completed.
C27_ManagerWithoutCopySkipped ==
    /\ done.op = "remove_message" /\ done.obs # <<>>
    /\ done.obs[1].in_template /\ done.obs[1].lacking # {}
    =>  /\ done.res = "ok"
        /\ \A i \in 1..Len(self._gen_guilds) :
               \A c \in Held(self._gen_guilds[i]) : c.val # done.arg

\* C29: a client that was not connected when initialize was called is not
\* connected and is not made the global connection while its ping is
\* awaited; an initialize that returned has marked it connected and
\* installed it; an initialize in which the ping or a step before it failed
\* has closed the session, left the client not connected and the global
\* connection as it was, and raised the exception that made it fail; a
\* shutdown that returned has left the client not connected.
C29_ConnectedOnlyAfterPing ==
    /\ \A c \in DOMAIN gui.clients :
          LET cl == gui.clients[c]
          IN cl.pc \in {"ping", "except_close"} /\ ~cl.was =>
                /\ ~cl.connected
                /\ get_connection(gui) = c => cl.at_call = c
    /\ gui.last.op = "initialize" /\ gui.last.res = "ok" =>
            gui.last.connected /\ gui.last.after = gui.last.client
    /\ gui.last.op = "initialize" /\ gui.last.res # "ok" /\ ~gui.last.was =>
            /\ gui.last.res = "raised"
            /\ gui.last.session = "closed"
            /\ ~gui.last.connected
            /\ gui.last.after = gui.last.client => gui.last.at_call = gui.last.client
    /\ gui.last.op = "shutdown" /\ gui.last.res = "ok" => ~gui.last.connected

\* C31: whenever the object is Active and nothing is queued or running, its
\* generated list holds at most one GUILD manager for a guild and every
\* manager in it is initialized and not closed.
C31_OneRunningManagerPerGuild ==
    life = "Active" /\ dispatches = <<>> => NoDuplicates(Managed) /\ GeneratedRunning

\* C32: an auto-join handler dispatched while the object was Active that
\* got the update semaphore when _close had closed the object attempts no
\* join and does not arm the auto-join timer again.
C32_NoJoinAfterClose ==
    /\ \A i \in 1..Len(dispatches) :
           LET t == dispatches[i].task
           IN t.fnc = "_join_guilds" /\ t.arg.at = "Active" /\ t.phase = "Closed" =>
                 t.pc # "jg_join"
    /\ done.op = "_join_guilds" /\ done.arg.at = "Active" /\ done.phase = "Closed" =>
           Steps("attempt") = {} /\ self._guild_join_timer_handle # "armed"

\* The invite ids the update that just finished found tracked.
TrackedBefore ==
    LET i == CHOOSE j \in 1..Len(done.obs) : done.obs[j].k = "tracked"
    IN done.obs[i].ids

\* C33: an update of the Active object that gave no invite_track override
\* has completed without exception and the object tracks the invite ids it
\* tracked before the update.
C33_UpdateKeepsInviteTrack ==
    /\ done.op = "_on_update" /\ done.arg.at = "Active"
    /\ "invite_track" \notin DOMAIN Overrides
    =>  /\ done.res = "ok"
        /\ DOMAIN self._invite_join_count = TrackedBefore

====
